---- MODULE Spec2Model ----
(***************************************************************************)
(* Change detection and notification in the DP World Tour trackers:        *)
(*   bot.py                    run_once_and_post and its state/archive     *)
(*   dpwt_monitor_discord.py   main (baseline, throttle, per-item loop)    *)
(*   ms_leaderboard_bot.py     main (reminder, live leaderboard)           *)
(*   dpwt_monitor_discord_playwright.py   main (gate, baseline, compare)   *)
(* Time is counted in whole hours (bot.py) or whole days (reminder).       *)
(* Python None is the integer None in numeric fields; a dict is a function *)
(* whose DOMAIN is its key set.                                            *)
(***************************************************************************)
EXTENDS Integers, Sequences, FiniteSets, TLC

None == -9999

\* dict.get(k) with the default None
Get(d, k) == IF k \in DOMAIN d THEN d[k] ELSE None

Range(s) == {s[i] : i \in DOMAIN s}

(***************************************************************************)
(* bot.py : constants                                                      *)
(***************************************************************************)
\* "1970-01-01T00:00:00Z", hours before the modelled time line
Epoch == -1000000
\* timedelta(hours=4)
ThrottleHours == 4
\* timedelta(days=3)
WindowDays == 3
\* timedelta(hours=12)
GraceHours == 12
\* timedelta(days=9999)
BestDeltaDays == 9999

\* bounds of the bot.py model
MaxClock == 4
MaxSent == 2

(***************************************************************************)
(* bot.py : domain logic                                                   *)
(***************************************************************************)
\* rounds_maps: the strokes dict of a Rounds list; a later entry for the same
\* RoundNo overwrites an earlier one
RECURSIVE rounds_maps(_)
rounds_maps(rounds) ==
  IF rounds = <<>> THEN [rn \in {} |-> None]
  ELSE LET n    == Len(rounds)
           init == rounds_maps(SubSeq(rounds, 1, n - 1))
           it   == rounds[n]
       IN  [rn \in (DOMAIN init) \cup {it.RoundNo} |->
              IF rn = it.RoundNo THEN it.Strokes ELSE init[rn]]

\* the finished predicate inside event_active
finished(e) ==
  LET strokes  == rounds_maps(e.Rounds)
      complete == \A i \in 1..4 : Get(strokes, i) # None
  IN  e.Total # None /\ e.ScoreToPar # None /\ complete

\* the window taken as [end - 12 hours, end + 3 days]
event_active_swapped(e, now) ==
  LET end_dt == e.EndDate IN
  IF end_dt = None THEN FALSE
  ELSE LET window == end_dt - GraceHours <= now /\ now <= end_dt + WindowDays * 24
       IN  IF ~window THEN FALSE ELSE ~finished(e)

\* the window alone, without the test for a finished tournament
event_active_window_only(e, now) ==
  LET end_dt == e.EndDate IN
  IF end_dt = None THEN FALSE
  ELSE end_dt - WindowDays * 24 <= now /\ now <= end_dt + GraceHours

event_active(e, now) ==
  LET end_dt == e.EndDate IN
  IF end_dt = None THEN FALSE
  ELSE LET start_dt == end_dt - WindowDays * 24
           window   == start_dt <= now /\ now <= end_dt + GraceHours
       IN  IF ~window THEN FALSE ELSE ~finished(e)

\* sorted(results, key=EndDate or datetime.min): stable insertion sort
SortKey(e) == IF e.EndDate = None THEN Epoch ELSE e.EndDate

RECURSIVE sorted(_)
sorted(results) ==
  IF results = <<>> THEN <<>>
  ELSE LET n    == Len(results)
           init == sorted(SubSeq(results, 1, n - 1))
           e    == results[n]
           k    == Cardinality({i \in DOMAIN init : SortKey(init[i]) <= SortKey(e)})
       IN  SubSeq(init, 1, k) \o <<e>> \o SubSeq(init, k + 1, Len(init))

Abs(x) == IF x < 0 THEN -x ELSE x

\* the scan of choose_current over the first n sorted items: <<best index, best_delta>>
RECURSIVE scan(_, _, _)
scan(items, n, now) ==
  IF n = 0 THEN <<0, BestDeltaDays * 24>>
  ELSE LET prev == scan(items, n - 1, now)
           dt   == items[n].EndDate
       IN  IF dt = None THEN prev
           ELSE IF Abs(dt - now) < prev[2] THEN <<n, Abs(dt - now)>> ELSE prev

\* choose_current: index into sorted(results) of the chosen result, 0 for None
choose_current(results, now) == scan(sorted(results), Len(results), now)[1]

(***************************************************************************)
(* bot.py : messages                                                       *)
(***************************************************************************)
\* str(EventId)
str(x) == ToString(x)

\* f"R{i}"
RKey(i) == <<"R1", "R2", "R3", "R4">>[i]

\* a notification, identified by its kind, its event, its round and the value
\* it reports (strokes for a round message, Total for the final message)
Msg(kind, e, rnd, val) == [kind |-> kind, ev |-> str(e.EventId), round |-> rnd, value |-> val]

\* the elements of a set of integers in increasing order
Ascending(S) ==
  [k \in 1..Cardinality(S) |-> CHOOSE i \in S : Cardinality({j \in S : j < i}) = k - 1]

\* build_round_msgs: one message per round 1..4 with strokes, in round order
build_round_msgs(e) ==
  LET strokes == rounds_maps(e.Rounds)
      played  == Ascending({i \in 1..4 : Get(strokes, i) # None})
  IN  [k \in DOMAIN played |-> Msg("round", e, played[k], strokes[played[k]])]

build_final_msg(e) == Msg("final", e, 0, e.Total)

(***************************************************************************)
(* bot.py : state store                                                    *)
(***************************************************************************)
VARIABLES
  env,        \* "local": no GITHUB_TOKEN/GH_REPO; "repo": token and repo, no
              \* STATE_ISSUE_NUMBER; "issue": token, repo and issue number
  clock,      \* datetime.now(timezone.utc), in hours
  issue,      \* the state issue: [kind, data]
  stateFile,  \* .state.json: [kind, data]
  jsonl,      \* archive/<season>.jsonl, one record per line
  csv,        \* archive/summary.csv, the lines after the header
  finalSent,  \* history: per event key, how often the final message was delivered
  r2was70,    \* history: a round-2 message with strokes 70 was delivered for event 101
  last,       \* history: what the most recent run_once_and_post did
  loaded      \* per overlapping invocation, the state its state_load returned

botVars == <<env, clock, issue, stateFile, jsonl, csv, finalSent, r2was70, last, loaded>>

\* {}
EmptyDict == [k \in {} |-> None]

DefaultState ==
  [last_full_check |-> Epoch, last_round_hash |-> EmptyDict, posted_final_for |-> <<>>]

\* the keys run_once_and_post reads with state[...]
StateKeys == {"last_full_check", "last_round_hash", "posted_final_for"}

issue_state_enabled == env = "issue"

githubBacked == env \in {"repo", "issue"}

\* gh_issue_get_state: {} for a 404 and for a body without a readable block
gh_issue_get_state == IF issue.kind = "json" THEN issue.data ELSE EmptyDict

\* state_load: the issue state if it is non-empty, else the file, else defaults
state_load ==
  IF issue_state_enabled /\ gh_issue_get_state # EmptyDict THEN gh_issue_get_state
  ELSE IF stateFile.kind = "json" THEN stateFile.data
  ELSE DefaultState

\* gh_issue_set_state: PATCH of the existing issue; on a 404 the POST creates
\* an issue whose number the server chooses (hit: it is STATE_ISSUE_NUMBER)
gh_issue_set_state(state, hit) ==
  IF issue.kind = "absent"
  THEN IF hit THEN [kind |-> "json", data |-> state] ELSE issue
  ELSE [kind |-> "json", data |-> state]

(***************************************************************************)
(* bot.py : archive                                                        *)
(***************************************************************************)
ArchiveRecord(e) == [EventId |-> e.EventId, Total |-> e.Total]

\* gh_read_file: (None, None) without token/repo, else the file content
gh_read_file(content) == IF githubBacked THEN content ELSE <<>>

\* the JSONL step without the test of the EventIds already in the file
archive_jsonl_unchecked(e) == Append(gh_read_file(jsonl), ArchiveRecord(e))

\* archive_update is called for an EventId that the JSONL file it reads holds
archive_present(e) ==
  \E i \in DOMAIN gh_read_file(jsonl) : gh_read_file(jsonl)[i].EventId = e.EventId

\* the JSONL step of archive_update: the new content of the season file
archive_jsonl(e) ==
  LET prev_jsonl == gh_read_file(jsonl)
      existing   == {prev_jsonl[i].EventId : i \in DOMAIN prev_jsonl}
  IN  IF e.EventId \notin existing THEN Append(prev_jsonl, ArchiveRecord(e)) ELSE jsonl

\* the CSV step of archive_update: the new lines of the summary file
archive_csv(e) ==
  LET prev_csv == gh_read_file(csv)
      line     == ArchiveRecord(e)
  IN  IF prev_csv = <<>> \/ line \notin Range(prev_csv) THEN Append(prev_csv, line) ELSE csv

(***************************************************************************)
(* bot.py : run_once_and_post                                              *)
(***************************************************************************)
\* the gate without the test for an active tournament
throttled_also_active(active, now, last_full) == now - last_full < ThrottleHours

\* the throttle gate: outside active tournaments work only every 4 hours
throttled(active, now, last_full) == ~active /\ now - last_full < ThrottleHours

\* to_post_idx: the rounds with strokes that differ from the stored value
to_post_idx(seen, strokes) ==
  {i \in 1..4 : Get(strokes, i) # None /\ Get(seen, RKey(i)) # Get(strokes, i)}

\* seen after seen[key] = s for every round in to_post_idx
seen_update(seen, strokes) ==
  LET idx == to_post_idx(seen, strokes)
  IN  [k \in (DOMAIN seen) \cup {RKey(i) : i \in idx} |->
         IF \E i \in idx : RKey(i) = k
         THEN strokes[CHOOSE i \in idx : RKey(i) = k]
         ELSE seen[k]]

\* for i, msg in zip([1,2,3,4], msgs): if i in to_post_idx: send_discord(msg)
round_sends(msgs, idx) ==
  LET zipped == Ascending({i \in 1..4 : i <= Len(msgs) /\ i \in idx})
  IN  [k \in DOMAIN zipped |-> msgs[zipped[k]]]

\* the assignment left out
record_rounds_forgotten(hash, eid, seen2) == hash

\* state["last_round_hash"][eid] = seen
record_rounds(hash, eid, seen2) ==
  [k \in (DOMAIN hash) \cup {eid} |-> IF k = eid THEN seen2 ELSE hash[k]]

\* the condition of the finish step
final_due(current, now, posted) ==
  ~event_active(current, now) /\ str(current.EventId) \notin Range(posted)

\* the append left out
record_final_dropped(posted, eid) == posted

\* state["posted_final_for"].append(eid)
record_final(posted, eid) == Append(posted, eid)

\* What one poll computes from the loaded state, the payload and now, when
\* nothing raises: the stage it reaches, the messages it hands to send_discord
\* in order, and the state it hands to state_save.
detect(state, p, now) ==
  LET results  == p.Results
      items    == sorted(results)
      ci       == choose_current(results, now)
      current  == items[ci]
      active   == ci > 0 /\ event_active(current, now)
      eid      == str(current.EventId)
      hash     == state.last_round_hash
      seen     == IF eid \in DOMAIN hash THEN hash[eid] ELSE EmptyDict
      strokes  == rounds_maps(current.Rounds)
      idx      == to_post_idx(seen, strokes)
      posting  == active /\ idx # {}
      doFinal  == ci > 0 /\ final_due(current, now, state.posted_final_for)
  IN  IF results = <<>>
      THEN [stage |-> "empty", active |-> FALSE, cur |-> "", roundMsgs |-> <<>>,
            finalMsg |-> <<>>, state |-> state, ret |-> FALSE]
      ELSE IF throttled(active, now, state.last_full_check)
      THEN [stage |-> "throttled", active |-> active, cur |-> IF ci > 0 THEN eid ELSE "",
            roundMsgs |-> <<>>, finalMsg |-> <<>>,
            state |-> [state EXCEPT !.last_full_check = now], ret |-> FALSE]
      ELSE [stage |-> "processed", active |-> active, cur |-> IF ci > 0 THEN eid ELSE "",
            roundMsgs |-> IF posting THEN round_sends(build_round_msgs(current), idx)
                          ELSE <<>>,
            finalMsg |-> IF doFinal THEN <<build_final_msg(current)>> ELSE <<>>,
            state |-> [last_full_check |-> now,
                       last_round_hash |->
                         IF posting
                         THEN record_rounds(hash, eid, seen_update(seen, strokes))
                         ELSE hash,
                       posted_final_for |->
                         IF doFinal THEN record_final(state.posted_final_for, eid)
                         ELSE state.posted_final_for],
            ret |-> active]

\* the result the poll works on (choose_current), for the archive step
currentOf(p, now) == sorted(p.Results)[choose_current(p.Results, now)]

\* state_save to the local file: open(..., "w") truncates before json.dump writes
file_save(state, fail) ==
  IF fail = "save_open" THEN stateFile
  ELSE IF fail = "save_write" THEN [kind |-> "partial", data |-> DefaultState]
  ELSE [kind |-> "json", data |-> state]

Min(a, b) == IF a < b THEN a ELSE b

FailPoints ==
  {"none", "fetch", "send1", "send2", "archive1", "archive2", "save_open", "save_write"}

\* the fail points a poll with this plan reaches
Reached(plan) ==
  {"none", "fetch"}
  \cup (IF Len(plan.roundMsgs \o plan.finalMsg) >= 1 THEN {"send1"} ELSE {})
  \cup (IF Len(plan.roundMsgs \o plan.finalMsg) >= 2 THEN {"send2"} ELSE {})
  \cup (IF plan.finalMsg # <<>> THEN {"archive1", "archive2"} ELSE {})
  \cup (IF plan.stage \in {"throttled", "processed"} THEN {"save_open", "save_write"} ELSE {})

\* how the loaded state relates to the states the scenarios start from
PreOf(state) ==
  IF state = DefaultState THEN "default"
  ELSE IF ~(StateKeys \subseteq DOMAIN state) THEN "other"
  ELSE IF /\ "101" \in DOMAIN state.last_round_hash
          /\ state.last_round_hash["101"] = [k \in {"R1", "R2"} |-> IF k = "R1" THEN 70 ELSE 68]
          /\ "101" \notin Range(state.posted_final_for)
       THEN "progress12"
       ELSE "other"

\* this poll repeats the previous one: same payload, same now, and it loaded
\* the state the previous poll left
Rerun(p, now) ==
  /\ last.stage \in {"empty", "throttled", "processed"}
  /\ ~last.raised /\ last.stored
  /\ last.payload = p /\ last.now = now

\* run_once_and_post assigns into the dict that state_load returned: the keys
\* it does not assign (another program's entry in the issue) stay in it
carry_keys(state, new) ==
  IF DOMAIN state \subseteq DOMAIN new THEN new
  ELSE [k \in DOMAIN state \cup DOMAIN new |-> IF k \in DOMAIN new THEN new[k] ELSE state[k]]

\* the exception of fetch_results caught inside run_once_and_post
fetch_results_swallowed(fail) == FALSE

\* fetch_results raises: the requests retries and the browser fallback failed
fetch_results_raises(fail) == fail = "fetch"

\* run_once_and_post from line 349 on, with the state that state_load returned.
\* fail names the call that raises (none, fetch_results, the first or second
\* send_discord, archive_update before or after its JSONL write, state_save
\* before or after the file is truncated).
RunFrom(state, p, fail, hit) ==
  LET now   == clock
  IN  \E plan \in {detect(state, p, now)} :
      LET planned    == plan.roundMsgs \o plan.finalMsg
          failIdx    == IF fail = "send1" THEN 1 ELSE IF fail = "send2" THEN 2 ELSE 0
          sendRaised == failIdx \in 1..Len(planned)
          delivered  == IF sendRaised THEN SubSeq(planned, 1, failIdx - 1) ELSE planned
          doArchive  == plan.finalMsg # <<>> /\ ~sendRaised
          archRaised == doArchive /\ fail \in {"archive1", "archive2"}
          doSave     == plan.stage \in {"throttled", "processed"} /\ ~sendRaised /\ ~archRaised
          saveRaised == doSave /\ fail \in {"save_open", "save_write"}
          saved      == doSave /\ ~saveRaised
          finals     == {delivered[i].ev :
                           i \in {j \in DOMAIN delivered : delivered[j].kind = "final"}}
      IN  /\ fail \in Reached(plan)
          /\ \A k \in DOMAIN finalSent : finalSent[k] < MaxSent
          /\ UNCHANGED <<env, clock>>
          /\ IF fetch_results_raises(fail)
             THEN /\ UNCHANGED <<issue, stateFile, jsonl, csv, finalSent, r2was70>>
                  /\ last' = [stage |-> "fetch", raised |-> TRUE, payload |-> p, now |-> now,
                              pre |-> PreOf(state), active |-> FALSE, cur |-> "",
                              sent |-> <<>>, stored |-> FALSE, state |-> state,
                              rerun |-> FALSE, prevSent |-> 0, was70 |-> r2was70,
                              fail |-> fail, dup |-> FALSE]
             ELSE /\ issue' = IF issue_state_enabled /\ saved
                              THEN gh_issue_set_state(carry_keys(state, plan.state), hit) ELSE issue
                  /\ stateFile' = IF ~issue_state_enabled /\ doSave
                                  THEN file_save(carry_keys(state, plan.state), fail) ELSE stateFile
                  /\ jsonl' = IF doArchive /\ fail # "archive1"
                              THEN archive_jsonl(currentOf(p, now)) ELSE jsonl
                  /\ csv' = IF doArchive /\ ~archRaised
                            THEN archive_csv(currentOf(p, now)) ELSE csv
                  /\ finalSent' = [k \in DOMAIN finalSent |->
                                     IF k \in finals THEN Min(finalSent[k] + 1, MaxSent)
                                     ELSE finalSent[k]]
                  /\ r2was70' = (r2was70 \/ \E i \in DOMAIN delivered :
                                   delivered[i] = [kind |-> "round", ev |-> "101",
                                                   round |-> 2, value |-> 70])
                  /\ last' = [stage |-> plan.stage,
                              raised |-> sendRaised \/ archRaised \/ saveRaised,
                              payload |-> p, now |-> now, pre |-> PreOf(state),
                              active |-> plan.active, cur |-> plan.cur, sent |-> delivered,
                              stored |-> (state_load' = carry_keys(state, plan.state)),
                              state |-> plan.state,
                              rerun |-> Rerun(p, now),
                              prevSent |-> IF Rerun(p, now) THEN Len(last.sent) ELSE 0,
                              was70 |-> r2was70,
                              fail |-> fail,
                              dup |-> (doArchive /\ archive_present(currentOf(p, now)))]

\* state["last_full_check"] of line 360 raises KeyError: the poll ends there
KeyErrorPoll(state, p, fail) ==
  /\ UNCHANGED <<env, clock, issue, stateFile, jsonl, csv, finalSent, r2was70>>
  /\ last' = [stage |-> "keyerror", raised |-> TRUE, payload |-> p, now |-> clock,
              pre |-> "other", active |-> FALSE, cur |-> "",
              sent |-> <<>>, stored |-> FALSE, state |-> state,
              rerun |-> FALSE, prevSent |-> 0, was70 |-> r2was70,
              fail |-> fail, dup |-> FALSE]

\* One invocation of run_once_and_post on payload p: state_load, then the rest
RunOnceAndPost(p, fail, hit) ==
  IF ~fetch_results_raises(fail) /\ p.Results # <<>> /\ ~(StateKeys \subseteq DOMAIN state_load)
  THEN fail = "none" /\ KeyErrorPoll(state_load, p, fail)
  ELSE RunFrom(state_load, p, fail, hit)

(***************************************************************************)
(* bot.py : payloads of the results API and the behaviours                 *)
(***************************************************************************)
Rd(n, strokes) == [RoundNo |-> n, Strokes |-> strokes]

Ev(id, end, rounds, total, to_par) ==
  [EventId |-> id, EndDate |-> end, Rounds |-> rounds, Total |-> total, ScoreToPar |-> to_par]

R12   == <<Rd(1, 70), Rd(2, 68)>>
R1234 == <<Rd(1, 70), Rd(2, 68), Rd(3, 72), Rd(4, 71)>>

Payload(rs) == [Season |-> 2025, Results |-> rs]

\* What the results API may return at time now: no results; event 101 ending
\* in a day after two rounds; event 101 ended a day ago after a missed cut;
\* event 101 without an end date; event 102, finished thirty hours ago.
Payloads(now) ==
  { Payload(<<>>),
    Payload(<<Ev(101, now + 24, R12, None, None)>>),
    Payload(<<Ev(101, now - 24, R12, 281, -7)>>),
    Payload(<<Ev(101, None, <<>>, None, None)>>),
    Payload(<<Ev(102, now - 30, R1234, 281, -7)>>) }

\* The round-by-round reports of event 101: ending in a day with two rounds
\* (round 2 reported as 68, 70 or 69, round 1 possibly without strokes; possibly
\* next to an event 103 ten days ahead) or four rounds, or ended a day ago with
\* two rounds or with the final result.
RoundPayloads(now) ==
  { Payload(<<Ev(101, now + 24, R12, None, None)>>),
    Payload(<<Ev(103, now + 240, <<>>, None, None), Ev(101, now + 24, R12, None, None)>>),
    Payload(<<Ev(101, now + 24, <<Rd(1, 70), Rd(2, 70)>>, None, None)>>),
    Payload(<<Ev(101, now + 24, <<Rd(1, 70), Rd(2, 69)>>, None, None)>>),
    Payload(<<Ev(101, now + 24, <<Rd(1, None), Rd(2, 69)>>, None, None)>>),
    Payload(<<Ev(101, now + 24, R1234, None, None)>>),
    Payload(<<Ev(101, now - 24, R12, None, None)>>),
    Payload(<<Ev(101, now - 24, R1234, 281, -7)>>) }

Keys == {"101", "102", "103"}

TickSteps == {2, 4}

(***************************************************************************)
(* dpwt_monitor_discord.py                                                 *)
(* One season is modelled.  The raw dump, the debug files and the history  *)
(* log are written and never read back; they are not part of the state.    *)
(***************************************************************************)
VARIABLES
  monClock,   \* datetime.utcnow(), in hours
  baseline,   \* data/baseline-<season>.json: [exists, count]
  lastSeen,   \* state/last_seen.json: last_check_ts, None without the file
  events,     \* state/events.json, "events": key -> [rounds, finished]
  monLast,    \* history: what the most recent main did
  baselineSent \* history: how often the baseline message was sent

monVars == <<monClock, baseline, lastSeen, events, monLast, baselineSent>>

MonThrottleHours == 2

MaxMonClock == 3

\* d[k] = v
Put(d, k, v) == [x \in DOMAIN d \cup {k} |-> IF x = k THEN v ELSE d[x]]

\* str.strip
strip(s) == IF s = " " THEN "" ELSE s

\* hashlib digest of [name, EndDate]
sha(name, end) == "sha:" \o name \o "@" \o end

\* a JSON number in a field that main treats as a string
NotStr == "<number>"

\* an item of the results list; 0 and "" stand for a missing or empty field
Item(cid, eid, name, end, r1, r2, r3, r4, total) ==
  [CompetitionId |-> cid, EventId |-> eid, Tournament |-> name, EndDate |-> end,
   R1 |-> r1, R2 |-> r2, R3 |-> r3, R4 |-> r4, Total |-> total]

NormalizeKeys == <<"Results", "results", "Items", "items", "Data", "data">>

\* normalize_items: a list as it is, else the first list found under the
\* known keys of a dict, else []
normalize_items(api_obj) ==
  IF api_obj.type = "list" THEN api_obj.value
  ELSE IF api_obj.type = "dict" /\ api_obj.key \in Range(NormalizeKeys) THEN api_obj.value
  ELSE <<>>

ev_key(ev) ==
  LET cid == IF ev.CompetitionId # 0 THEN ev.CompetitionId ELSE ev.EventId
  IN  IF cid # 0 THEN str(cid) ELSE sha(ev.Tournament, ev.EndDate)

round_fields(ev) ==
  [R1 |-> ev.R1, R2 |-> ev.R2, R3 |-> ev.R3, R4 |-> ev.R4, Total |-> ev.Total]

BaselineMsg(n) == [kind |-> "baseline", key |-> "", round |-> 0, value |-> str(n)]

post_round_update(key, rno, strokes) ==
  [kind |-> "round", key |-> key, round |-> rno, value |-> strokes]

post_final(key, ev) == [kind |-> "final", key |-> key, round |-> 0, value |-> ev.Total]

\* the baseline written and announced whether or not the file exists
ensure_baseline_always(items) ==
  [file |-> [exists |-> TRUE, count |-> Len(items)],
   sent |-> <<BaselineMsg(Len(items))>>]

\* ensure_baseline: the file after the call, and the messages it sends
ensure_baseline(items) ==
  IF baseline.exists THEN [file |-> baseline, sent |-> <<>>]
  ELSE [file |-> [exists |-> TRUE, count |-> Len(items)],
        sent |-> <<BaselineMsg(Len(items))>>]

\* the gate opening an hour late
throttle_ok_late(is_live) ==
  IF lastSeen = None THEN TRUE
  ELSE IF is_live THEN TRUE
  ELSE monClock - lastSeen >= MonThrottleHours + 1

throttle_ok(is_live) ==
  IF lastSeen = None THEN TRUE
  ELSE IF is_live THEN TRUE
  ELSE monClock - lastSeen >= MonThrottleHours

NewEvent == [rounds |-> EmptyDict, finished |-> FALSE]

\* val of main's round loop
round_val(rdat, rno) == IF rdat[RKey(rno)] # "" THEN strip(rdat[RKey(rno)]) ELSE ""

\* main, lines 248-256: acc = [entry, sent, raised]; .strip() of a value that
\* is not a string raises AttributeError
RECURSIVE round_loop(_, _, _, _)
round_loop(key, rdat, rno, acc) ==
  IF rno > 4 \/ acc.raised THEN acc
  ELSE IF rdat[RKey(rno)] = NotStr THEN [acc EXCEPT !.raised = TRUE]
  ELSE LET val == round_val(rdat, rno)
           old == acc.entry.rounds
           changed == val # "" /\ (str(rno) \notin DOMAIN old \/ old[str(rno)] # val)
       IN  round_loop(key, rdat, rno + 1,
             IF changed
             THEN [entry |-> [acc.entry EXCEPT !.rounds = Put(old, str(rno), val)],
                   sent  |-> Append(acc.sent, post_round_update(key, rno, val)),
                   raised |-> FALSE]
             ELSE acc)

\* finished of main, line 258
item_finished(ev) ==
  /\ strip(ev.Total) # ""
  /\ strip(IF ev.R4 # "" THEN ev.R4 ELSE ev.R3) # ""

\* main, lines 242-263: acc = [events, sent, raised]; nothing catches what
\* the round loop or line 258 raises, so the loop ends at that item
RECURSIVE item_loop(_, _, _)
item_loop(items, i, acc) ==
  IF i > Len(items) \/ acc.raised THEN acc
  ELSE LET ev    == items[i]
           key   == ev_key(ev)
           entry == IF key \in DOMAIN acc.events THEN acc.events[key] ELSE NewEvent
           r     == round_loop(key, round_fields(ev), 1,
                               [entry |-> entry, sent |-> acc.sent, raised |-> FALSE])
           fin   == item_finished(ev) /\ ~r.entry.finished
       IN  IF r.raised \/ ev.Total = NotStr
           THEN [events |-> acc.events, sent |-> r.sent, raised |-> TRUE]
           ELSE item_loop(items, i + 1,
                  [events |-> Put(acc.events, key,
                                  IF fin THEN [r.entry EXCEPT !.finished = TRUE] ELSE r.entry),
                   sent   |-> IF fin THEN Append(r.sent, post_final(key, ev)) ELSE r.sent,
                   raised |-> FALSE])

\* the first-ever run: no baseline file, no events state, no last_check_ts
first_run == ~baseline.exists /\ events = EmptyDict /\ lastSeen = None

\* utcnow() - last_dt of throttle_ok, None without a last_check_ts
since_last_check == IF lastSeen = None THEN None ELSE monClock - lastSeen

\* main
MonMain(raw, live, fail) ==
  LET items == normalize_items(raw)
      base  == ensure_baseline(items)
  IN  /\ UNCHANGED monClock
      /\ IF fail
         THEN /\ UNCHANGED <<baseline, lastSeen, events, baselineSent>>
              /\ monLast' = [stage |-> "fetch", first |-> first_run,
                             items |-> <<>>, sent |-> <<>>, live |-> FALSE,
                             since |-> since_last_check]
         ELSE IF items = <<>>
         THEN /\ baseline' = base.file
              /\ baselineSent' = baselineSent + Len(base.sent)
              /\ lastSeen' = monClock
              /\ UNCHANGED events
              /\ monLast' = [stage |-> "empty", first |-> first_run,
                             items |-> items, sent |-> base.sent, live |-> FALSE,
                             since |-> since_last_check]
         ELSE IF ~throttle_ok(live)
         THEN /\ baseline' = base.file
              /\ baselineSent' = baselineSent + Len(base.sent)
              /\ UNCHANGED <<lastSeen, events>>
              /\ monLast' = [stage |-> "throttled", first |-> first_run,
                             items |-> items, sent |-> base.sent, live |-> live,
                             since |-> since_last_check]
         ELSE \E r \in {item_loop(items, 1, [events |-> events, sent |-> base.sent,
                                             raised |-> FALSE])} :
              /\ baseline' = base.file
              /\ baselineSent' = baselineSent + Len(base.sent)
              /\ events' = IF r.raised THEN events ELSE r.events
              /\ lastSeen' = IF r.raised THEN lastSeen ELSE monClock
              /\ monLast' = [stage |-> IF r.raised THEN "raised" ELSE "processed",
                             first |-> first_run, items |-> items, sent |-> r.sent,
                             live |-> live, since |-> since_last_check]

\* results of the season
InProgress == Item(201, 0, "Open", "2025-06-01", "70", "", "", "", "")

SecondDay == Item(201, 0, "Open", "2025-06-01", "70", "68", "", "", "")

Done == Item(201, 0, "Open", "2025-06-01", "70", "68", "72", "71", "281")

MissedCut == Item(0, 202, "Masters", "2025-05-01", "75", "76", " ", "", "151")

Unkeyed == Item(0, 0, "Classic", "2025-04-01", "", "", "", "", "")

\* strokes of round 1 as a string, of round 2 as a number
Numeric == Item(0, 203, "Trophy", "2025-07-01", "70", NotStr, "", "", "")

\* what the results API answers: a list, or a dict with a list under one key
ListOf(items) == [type |-> "list", key |-> "", value |-> items]

DictOf(k, items) == [type |-> "dict", key |-> k, value |-> items]

RawResults ==
  { ListOf(<<>>), [type |-> "other", key |-> "", value |-> <<>>],
    ListOf(<<InProgress>>), ListOf(<<SecondDay, MissedCut>>),
    DictOf("Results", <<Done, MissedCut>>), DictOf("items", <<Done, Unkeyed>>),
    DictOf("error", <<Done>>),
    ListOf(<<Numeric, SecondDay>>), ListOf(<<SecondDay, Numeric>>) }

MonTickSteps == {1, 2}

NoMonRun ==
  [stage |-> "init", first |-> FALSE, items |-> <<>>, sent |-> <<>>, live |-> FALSE,
   since |-> None]

InitMonitor ==
  /\ monClock = 0
  /\ baseline = [exists |-> FALSE, count |-> 0]
  /\ lastSeen = None
  /\ events = EmptyDict
  /\ monLast = NoMonRun
  /\ baselineSent = 0

(***************************************************************************)
(* ms_leaderboard_bot.py                                                   *)
(* lbIssue holds the "leaderboard_bot" entry of the state issue.           *)
(***************************************************************************)
VARIABLES
  lbEnabled,  \* GITHUB_TOKEN, GH_REPO and STATE_ISSUE_NUMBER are all set
  lbClock,    \* datetime.now(timezone.utc), in hours; the date is lbClock \div 24
  lbIssue,    \* the state issue: [kind, data]
  reminders,  \* history: per tournament url, how often the reminder was delivered
  lbLast      \* history: what the most recent main did

lbVars == <<lbEnabled, lbClock, lbIssue, reminders, lbLast>>

\* the live leaderboard part of main, over a sequence of runs
VARIABLES
  roundSent,  \* history: per (kind, event id, round), how often the message was delivered
  lbUnsaved,  \* history: some run so far did not get its state into the issue
  lbComplete  \* history: the (event id, round) pairs that a run which went
              \* through its loops has seen complete for every player

liveVars == <<roundSent, lbUnsaved, lbComplete>>

PLAYER_ID == 35703

ReminderDays == 2

LbWindowDays == 3

LbGraceHours == 12

MaxLbClock == 24

MaxReminders == 2

MaxRoundSent == 2

Site == "https://www.europeantour.com"

\* the "leaderboard_bot" entry that state_load puts in place; "" stands for
\* None in the two string fields
DefaultL ==
  [pre_alert_event_id |-> "", active_event_url |-> "", active_event_id |-> None,
   round_done |-> EmptyDict, round_final |-> EmptyDict, round_cum_to_par |-> EmptyDict]

lb_state_load == IF lbEnabled /\ lbIssue.kind = "json" THEN lbIssue.data ELSE DefaultL

\* gh_issue_set_state: nothing without the issue configuration; PATCH of the
\* issue; on a 404 a POST that creates an issue of the server's numbering
lb_state_save(L, hit) ==
  IF ~lbEnabled THEN lbIssue
  ELSE IF lbIssue.kind = "absent"
  THEN IF hit THEN [kind |-> "json", data |-> L] ELSE lbIssue
  ELSE [kind |-> "json", data |-> L]

\* the tournaments of the season: A is being played, B starts on day 2 and
\* C on day 3
PathA == "/dpworld-tour/a-2025/"

PathB == "/dpworld-tour/b-2025/"

PathC == "/dpworld-tour/c-2025/"

Paths == {PathA, PathB, PathC}

Urls == {Site \o p : p \in Paths}

\* event_url.replace("https://www.europeantour.com", "")
event_path(url) == CHOOSE p \in Paths : Site \o p = url

Result(path, id, end) == [EventUrl |-> path, EventId |-> id, EndDate |-> end]

ResultA == Result(PathA, 300, 66)

ResultB == Result(PathB, 301, 138)

ResultC == Result(PathC, 302, 162)

\* map_event_id_from_results: the EventId of the first entry with that path
map_event_id_from_results(data, path) ==
  LET hits == {i \in DOMAIN data : data[i].EventUrl = path}
  IN  IF hits = {} THEN None
      ELSE data[CHOOSE i \in hits : \A j \in hits : i <= j].EventId

\* main, lines 381-386: the end date of the first entry with that id
end_of(data, event_id) ==
  LET hits == {i \in DOMAIN data : data[i].EventId = event_id}
  IN  IF hits = {} THEN None
      ELSE data[CHOOSE i \in hits : \A j \in hits : i <= j].EndDate

active_window(end_dt, now) ==
  /\ end_dt # None
  /\ end_dt - 24 * LbWindowDays <= now
  /\ now <= end_dt + LbGraceHours

find_player(players, player_id) ==
  LET hits == {i \in DOMAIN players : players[i].PlayerId = player_id}
  IN  IF hits = {} THEN 0 ELSE CHOOSE i \in hits : \A j \in hits : i <= j

RECURSIVE strokes_map(_)
strokes_map(rounds) ==
  IF rounds = <<>> THEN EmptyDict
  ELSE LET n == Len(rounds)
       IN  Put(strokes_map(SubSeq(rounds, 1, n - 1)), rounds[n].RoundNo, rounds[n].Strokes)

round_strokes_map(p) == strokes_map(p.Rounds)

everyone_finished_round(players, rnd) ==
  \A i \in DOMAIN players : Get(round_strokes_map(players[i]), rnd) # None

LbMsg(kind, url, rnd, strokes, delta, cum) ==
  [kind |-> kind, url |-> url, round |-> rnd, strokes |-> strokes,
   delta |-> delta, cum |-> cum]

post_pre_alert(event_url) == LbMsg("pre_alert", event_url, 0, None, None, None)

post_round_done(event_url, rnd, strokes, delta_rnd, cum_to_par) ==
  LbMsg("round_done", event_url, rnd, strokes, delta_rnd, cum_to_par)

post_round_final(event_url, rnd, cum_to_par) ==
  LbMsg("round_final", event_url, rnd, None, None, cum_to_par)

\* d.get(k), truthy
Marked(d, k) == k \in DOMAIN d /\ d[k]

\* d.setdefault(k, {})
SetDefault(d, k) == IF k \in DOMAIN d THEN d ELSE Put(d, k, EmptyDict)

\* main, lines 349-395, for the state L, the parsed page got and the results
\* data: the state, the messages and the exit reached
lb_prepare(L, got, data, now) ==
  LET seen   == got.found /\ got.start_date # None
      due    == seen /\ got.start_date - (now \div 24) = ReminderDays
      eid    == map_event_id_from_results(data, event_path(got.url))
      key    == IF eid # None THEN str(eid) ELSE got.url
      alert  == due /\ L.pre_alert_event_id # key
      L1     == IF seen
                THEN [L EXCEPT !.pre_alert_event_id = IF alert THEN key ELSE @,
                               !.active_event_url = got.url]
                ELSE L
      active_url == L1.active_event_url
      event_id   == IF active_url = "" THEN None
                    ELSE map_event_id_from_results(data, event_path(active_url))
      window     == event_id # None /\ active_window(end_of(data, event_id), now)
  IN  [L |-> IF event_id # None THEN [L1 EXCEPT !.active_event_id = event_id] ELSE L1,
       sent |-> IF alert THEN <<post_pre_alert(got.url)>> ELSE <<>>,
       exit |-> IF active_url = "" THEN "no_event"
                ELSE IF event_id = None THEN "no_id"
                ELSE IF ~window THEN "no_window" ELSE "window",
       url |-> active_url,
       event_id |-> event_id,
       reached |-> {"page"} \cup (IF due THEN {"lookup_pre"} ELSE {})
                   \cup (IF alert THEN {"send_pre"} ELSE {})
                   \cup (IF active_url # "" THEN {"lookup"} ELSE {})
                   \cup (IF event_id # None THEN {"results"} ELSE {})
                   \cup (IF window THEN {"leaderboard"} ELSE {})]

\* the round loop sending whenever the cumulated score differs from the stored one
RECURSIVE done_loop_by_value(_, _, _, _, _, _)
done_loop_by_value(E, url, rmap, cum_to_par, rnd, acc) ==
  IF rnd > 4 THEN acc
  ELSE LET strokes == Get(rmap, rnd)
       IN  done_loop_by_value(E, url, rmap, cum_to_par, rnd + 1,
             IF strokes # None /\ Get(acc.L.round_cum_to_par[E], str(rnd)) # cum_to_par
             THEN [L |-> [acc.L EXCEPT
                            !.round_done[E] = Put(@, str(rnd), TRUE),
                            !.round_cum_to_par[E] = Put(@, str(rnd), cum_to_par)],
                   sent |-> Append(acc.sent,
                              post_round_done(url, rnd, strokes, None, cum_to_par))]
             ELSE acc)

\* main, lines 417-428: acc = [L, sent]
RECURSIVE done_loop(_, _, _, _, _, _)
done_loop(E, url, rmap, cum_to_par, rnd, acc) ==
  IF rnd > 4 THEN acc
  ELSE LET strokes  == Get(rmap, rnd)
           prev_cum == Get(acc.L.round_cum_to_par[E], str(rnd - 1))
           delta_rnd == IF prev_cum # None /\ cum_to_par # None
                        THEN cum_to_par - prev_cum ELSE None
       IN  done_loop(E, url, rmap, cum_to_par, rnd + 1,
             IF strokes # None /\ ~Marked(acc.L.round_done[E], str(rnd))
             THEN [L |-> [acc.L EXCEPT
                            !.round_done[E] = Put(@, str(rnd), TRUE),
                            !.round_cum_to_par[E] = Put(@, str(rnd), cum_to_par)],
                   sent |-> Append(acc.sent,
                              post_round_done(url, rnd, strokes, delta_rnd, cum_to_par))]
             ELSE acc)

\* the round-final loop without its two tests of round_done and of the
\* other players
RECURSIVE final_loop_any(_, _, _, _, _, _)
final_loop_any(E, url, players, cum_to_par, rnd, acc) ==
  IF rnd > 4 THEN acc
  ELSE final_loop_any(E, url, players, cum_to_par, rnd + 1,
         IF ~Marked(acc.L.round_final[E], str(rnd))
         THEN [L |-> [acc.L EXCEPT !.round_final[E] = Put(@, str(rnd), TRUE)],
               sent |-> Append(acc.sent, post_round_final(url, rnd, cum_to_par))]
         ELSE acc)

\* the round-final loop leaving round_final unmarked
RECURSIVE final_loop_unrecorded(_, _, _, _, _, _)
final_loop_unrecorded(E, url, players, cum_to_par, rnd, acc) ==
  IF rnd > 4 THEN acc
  ELSE final_loop_unrecorded(E, url, players, cum_to_par, rnd + 1,
         IF /\ Marked(acc.L.round_done[E], str(rnd))
            /\ ~Marked(acc.L.round_final[E], str(rnd))
            /\ everyone_finished_round(players, rnd)
         THEN [L |-> acc.L,
               sent |-> Append(acc.sent, post_round_final(url, rnd, cum_to_par))]
         ELSE acc)

\* main, lines 431-439: acc = [L, sent]
RECURSIVE final_loop(_, _, _, _, _, _)
final_loop(E, url, players, cum_to_par, rnd, acc) ==
  IF rnd > 4 THEN acc
  ELSE final_loop(E, url, players, cum_to_par, rnd + 1,
         IF /\ Marked(acc.L.round_done[E], str(rnd))
            /\ ~Marked(acc.L.round_final[E], str(rnd))
            /\ everyone_finished_round(players, rnd)
         THEN [L |-> [acc.L EXCEPT !.round_final[E] = Put(@, str(rnd), TRUE)],
               sent |-> Append(acc.sent, post_round_final(url, rnd, cum_to_par))]
         ELSE acc)

\* main, lines 397-441, after lb_prepare has reached the leaderboard
lb_rounds(pre, lb) ==
  LET players == lb.Players
      me      == find_player(players, PLAYER_ID)
      E       == str(pre.event_id)
      L0      == [pre.L EXCEPT !.round_done = SetDefault(@, E),
                               !.round_final = SetDefault(@, E),
                               !.round_cum_to_par = SetDefault(@, E)]
      done    == done_loop(E, pre.url, round_strokes_map(players[me]),
                           players[me].ScoreToPar, 1, [L |-> L0, sent |-> <<>>])
      final   == final_loop(E, pre.url, players, players[me].ScoreToPar, 1,
                            [L |-> done.L, sent |-> <<>>])
  IN  IF pre.exit # "window"
      THEN [L |-> pre.L, exit |-> pre.exit, sentDone |-> <<>>, sentFinal |-> <<>>]
      ELSE IF me = 0
      THEN [L |-> pre.L, exit |-> "no_player", sentDone |-> <<>>, sentFinal |-> <<>>]
      ELSE [L |-> final.L, exit |-> "done", sentDone |-> done.sent,
            sentFinal |-> final.sent]

\* the calls of main that may raise, in the order main makes them
LbFailPoints ==
  {"page", "lookup_pre", "send_pre", "lookup", "results", "leaderboard",
   "send_done", "send_final", "save"}

\* the messages delivered before the call that raises
lb_delivered(pre, run, fail) ==
  IF fail \in {"page", "lookup_pre", "send_pre"} THEN <<>>
  ELSE IF fail \in {"lookup", "results", "leaderboard", "send_done"} THEN pre.sent
  ELSE IF fail = "send_final" THEN pre.sent \o run.sentDone
  ELSE pre.sent \o run.sentDone \o run.sentFinal

lb_reached(pre, run) ==
  pre.reached \cup (IF run.sentDone # <<>> THEN {"send_done"} ELSE {})
              \cup (IF run.sentFinal # <<>> THEN {"send_final"} ELSE {})
              \cup (IF lbEnabled THEN {"save"} ELSE {})

Count(msgs, url) ==
  Cardinality({i \in DOMAIN msgs : msgs[i].kind = "pre_alert" /\ msgs[i].url = url})

\* the event ids of the season, as the keys of round_done and round_final
EventKeys == {"300", "301", "302"}

RoundKinds == {"round_done", "round_final"}

RoundKeys == RoundKinds \X EventKeys \X (1..4)

\* how many of the delivered messages are of that kind and round
CountRound(msgs, kind, rnd) ==
  Cardinality({i \in DOMAIN msgs : msgs[i].kind = kind /\ msgs[i].round = rnd})

\* what parse_playing_this_week returns
Got(start_date, url) == [found |-> TRUE, start_date |-> start_date, url |-> url]

NoGot == [found |-> FALSE, start_date |-> None, url |-> ""]

Pages ==
  { NoGot, Got(-1, Site \o PathA), Got(2, Site \o PathB), Got(None, Site \o PathB),
    Got(3, Site \o PathC) }

Catalogues == { <<>>, <<ResultA>>, <<ResultA, ResultB, ResultC>> }

Player(id, to_par, rounds) == [PlayerId |-> id, ScoreToPar |-> to_par, Rounds |-> rounds]

NoLeaderboard == [Players |-> <<>>]

Leaderboards ==
  { NoLeaderboard,
    [Players |-> <<Player(1, -1, <<Rd(1, 71)>>)>>],
    [Players |-> <<Player(PLAYER_ID, -2, <<Rd(1, 70)>>), Player(1, 0, <<Rd(1, None)>>)>>],
    [Players |-> <<Player(PLAYER_ID, -2, <<Rd(1, 70)>>), Player(1, -1, <<Rd(1, 71)>>)>>],
    [Players |-> <<Player(PLAYER_ID, -3, <<Rd(1, 69)>>), Player(1, -1, <<Rd(1, 71)>>)>>],
    [Players |-> <<Player(PLAYER_ID, -6, <<Rd(1, 70), Rd(2, 68)>>),
                   Player(1, -1, <<Rd(1, 71), Rd(2, None)>>)>>],
    [Players |-> <<Player(PLAYER_ID, -6, <<Rd(1, 70), Rd(2, 68)>>),
                   Player(1, -2, <<Rd(1, 71), Rd(2, 70)>>)>>] }

LbHits == IF lbEnabled /\ lbIssue.kind = "absent" THEN BOOLEAN ELSE {TRUE}

\* main under __main__, which swallows what main raises: got is the parsed
\* page, data the answer of the results API; the leaderboard lb is fetched
\* once main gets that far, fail is the call that raises, hit the outcome of
\* a POST of the state
LbMain(got, data) ==
  \E pre \in {lb_prepare(lb_state_load, got, data, lbClock)} :
  \E lb \in (IF pre.exit = "window" THEN Leaderboards ELSE {NoLeaderboard}) :
  \E run \in {lb_rounds(pre, lb)} :
  \E fail \in (lb_reached(pre, run) \cap LbFailPoints) \cup {"none"}, hit \in LbHits :
  \E sent \in {lb_delivered(pre, run, fail)} :
  \E saved \in {fail = "none" /\ lbEnabled /\ (lbIssue.kind = "json" \/ hit)} :
  \E E \in {IF pre.event_id = None THEN "" ELSE str(pre.event_id)} :
    /\ \A u \in Urls : reminders[u] < MaxReminders
    /\ UNCHANGED <<lbEnabled, lbClock>>
    /\ lbIssue' = IF fail = "none" THEN lb_state_save(run.L, hit) ELSE lbIssue
    /\ reminders' = [u \in Urls |-> reminders[u] + Count(sent, u)]
    /\ lbLast' = [stage |-> IF fail = "none" THEN run.exit ELSE "raised",
                  sent |-> sent,
                  saved |-> saved,
                  event |-> E,
                  complete |-> IF fail = "none" /\ run.exit = "done"
                               THEN {r \in 1..4 : everyone_finished_round(lb.Players, r)}
                               ELSE {},
                  cum |-> IF run.exit = "done"
                          THEN lb.Players[find_player(lb.Players, PLAYER_ID)].ScoreToPar
                          ELSE None]

LbTickSteps == {12}

NoLbRun ==
  [stage |-> "init", sent |-> <<>>, saved |-> FALSE, event |-> "", complete |-> {},
   cum |-> None]

InitLeaderboard ==
  /\ lbEnabled \in BOOLEAN
  /\ lbClock = 0
  /\ lbIssue = [kind |-> "absent", data |-> DefaultL]
  /\ reminders = [u \in Urls |-> 0]
  /\ lbLast = NoLbRun

InitLive ==
  /\ roundSent = [k \in RoundKeys |-> 0]
  /\ lbUnsaved = FALSE
  /\ lbComplete = {}

(***************************************************************************)
(* dpwt_monitor_discord_playwright.py                                      *)
(* One season is modelled.  The results carry the fields of Item; the      *)
(* fields Pos., To Par, Prize Money and the points are absent from them.   *)
(* The debug files and the change logs are written and never read back.    *)
(***************************************************************************)
VARIABLES
  pwBaseline,     \* data/baseline-<season>.json: [kind, tournaments]
  pwTmp,          \* data/baseline-<season>.json.tmp: [kind, tournaments]
  pwBaselineSent, \* history: how often the baseline message was posted
  pwLast          \* history: what the most recent main did

pwVars == <<pwBaseline, pwTmp, pwBaselineSent, pwLast>>

\* daytime_hours of should_run_this_tick
DaytimeHours == {7, 9, 11, 13, 15, 17, 19, 21}

should_run_this_tick(live, hour, minute) ==
  IF live THEN TRUE
  ELSE IF hour \in DaytimeHours /\ minute = 0 THEN TRUE
  ELSE FALSE

\* a record of the results list that is not a dict
NotDict == Item(0, 0, "<not a dict>", "", "", "", "", "", "")

\* the finished heuristic of normalize_event
pw_finished(ev) ==
  LET total_ok == strip(ev.Total) \notin {"", "-"}
      r4 == strip(ev.R4)
      r3 == strip(ev.R3)
  IN  total_ok /\ (r4 # "" \/ (r3 # "" /\ r4 = ""))

\* normalize_event: EventId is the _EventId of the output
normalize_event(ev) ==
  [EndDate |-> ev.EndDate, Tournament |-> ev.Tournament,
   R1 |-> ev.R1, R2 |-> ev.R2, R3 |-> ev.R3, R4 |-> ev.R4, Total |-> ev.Total,
   EventId |-> ev.EventId, finished |-> pw_finished(ev)]

\* to_key on a normalised event
to_key(ev) ==
  IF ev.EventId # 0 THEN "id:" \o str(ev.EventId)
  ELSE "name:" \o ev.Tournament \o "|end:" \o ev.EndDate

\* [normalize_event(e) for e in (data or [])]: iterating a dict yields its
\* keys, and ev.get of a str or of another record that is not a dict raises
normalize_all(data) ==
  IF data.type = "dict" \/ \E i \in DOMAIN data.value : data.value[i] = NotDict
  THEN [raised |-> TRUE, events |-> <<>>]
  ELSE [raised |-> FALSE,
        events |-> [i \in DOMAIN data.value |-> normalize_event(data.value[i])]]

\* the keys of {to_key(e): e for e in list}, in the order of the dict
RECURSIVE key_order(_)
key_order(list) ==
  IF list = <<>> THEN <<>>
  ELSE LET n    == Len(list)
           init == key_order(SubSeq(list, 1, n - 1))
       IN  IF to_key(list[n]) \in Range(init) THEN init ELSE Append(init, to_key(list[n]))

\* the value of that dict under key k: the last event with the key
key_value(list, k) ==
  list[CHOOSE i \in DOMAIN list :
         to_key(list[i]) = k /\ \A j \in DOMAIN list : to_key(list[j]) = k => j <= i]

\* str(old_ev.get(f) or "") != str(new_ev.get(f) or "") for one of the fields
diffs(old_ev, new_ev) ==
  {f \in {"R1", "R2", "R3", "R4", "Total"} : old_ev[f] # new_ev[f]}

\* every key of the new list taken as new
new_tournaments_all(old_list, new_list) == key_order(new_list)

\* compare_baseline, "new_tournaments", as keys
new_tournaments(old_list, new_list) ==
  SelectSeq(key_order(new_list), LAMBDA k : k \notin Range(key_order(old_list)))

\* compare_baseline, "round_updates", as keys
round_updates(old_list, new_list) ==
  SelectSeq(key_order(new_list),
            LAMBDA k : /\ k \in Range(key_order(old_list))
                       /\ diffs(key_value(old_list, k), key_value(new_list, k)) # {})

\* compare_baseline, "finished_now", as keys
finished_now(old_list, new_list) ==
  SelectSeq(key_order(new_list),
            LAMBDA k : /\ k \in Range(key_order(old_list))
                       /\ ~key_value(old_list, k).finished
                       /\ key_value(new_list, k).finished)

compare_baseline(old_list, new_list) ==
  [new_tournaments |-> new_tournaments(old_list, new_list),
   round_updates   |-> round_updates(old_list, new_list),
   finished_now    |-> finished_now(old_list, new_list)]

PwMsg(kind, key) == [kind |-> kind, key |-> key]

\* main, lines 365-378: the posts, one per entry of the three lists
posts_of(changes) ==
  [i \in DOMAIN changes.new_tournaments |-> PwMsg("new", changes.new_tournaments[i])]
  \o [i \in DOMAIN changes.round_updates |-> PwMsg("round", changes.round_updates[i])]
  \o [i \in DOMAIN changes.finished_now |-> PwMsg("finished", changes.finished_now[i])]

NoFile == [kind |-> "absent", tournaments |-> <<>>]

\* a file whose write was cut short
PartialFile == [kind |-> "partial", tournaments |-> <<>>]

Doc(tournaments) == [kind |-> "json", tournaments |-> tournaments]

\* the document written straight to the path
write_json_in_place(target, tmp, tournaments, fail) ==
  IF fail = "write_tmp" THEN [target |-> PartialFile, tmp |-> tmp, raised |-> TRUE]
  ELSE [target |-> Doc(tournaments), tmp |-> tmp, raised |-> FALSE]

\* write_json: tmp.write_text, then tmp.replace(path); fail says where the
\* call is cut short (while the .tmp file is written, or before the replace)
write_json(target, tmp, tournaments, fail) ==
  IF fail = "write_tmp" THEN [target |-> target, tmp |-> PartialFile, raised |-> TRUE]
  ELSE IF fail = "write_replace" THEN [target |-> target, tmp |-> Doc(tournaments), raised |-> TRUE]
  ELSE [target |-> Doc(tournaments), tmp |-> NoFile, raised |-> FALSE]

\* read_json(baseline_path, default=None) returned a document
baseline_read == pwBaseline.kind = "json"

PwFailPoints == {"none", "fetch", "write_tmp", "write_replace", "post"}

\* main, lines 324-328 and 338-341: the baseline is written, then announced
set_baseline(tournaments, fail, stage, gate) ==
  \E w \in {write_json(pwBaseline, pwTmp, tournaments, fail)} :
    /\ pwBaseline' = w.target
    /\ pwTmp' = w.tmp
    /\ pwBaselineSent' = IF w.raised \/ fail = "post" THEN pwBaselineSent
                         ELSE pwBaselineSent + 1
    /\ pwLast' = [stage |-> IF w.raised \/ fail = "post" THEN "raised" ELSE stage,
                  gate |-> gate, events |-> tournaments,
                  sent |-> IF w.raised \/ fail = "post" THEN <<>>
                           ELSE <<PwMsg("baseline", "")>>,
                  fail |-> fail]

\* main under __main__: data is what fetch_results_via_page returns, live what
\* extract_live_status returns, hour and minute the local time, fail the call
\* that raises or is cut short
PwMain(data, live, hour, minute, fail) ==
  LET gate == should_run_this_tick(live, hour, minute)
      norm == normalize_all(data)
      quiet(stage, f) == /\ UNCHANGED <<pwBaseline, pwTmp, pwBaselineSent>>
                         /\ pwLast' = [stage |-> stage, gate |-> gate, events |-> norm.events,
                                       sent |-> <<>>, fail |-> f]
  IN  IF fail = "fetch" THEN quiet("fetch", "fetch")
      ELSE IF ~gate
      THEN IF pwBaseline.kind # "absent" THEN quiet("skip", "none")
           ELSE IF norm.raised THEN quiet("raised", "none")
           ELSE set_baseline(norm.events, fail, "skip", gate)
      ELSE IF norm.raised THEN quiet("raised", "none")
      ELSE IF ~baseline_read THEN set_baseline(norm.events, fail, "first", gate)
      ELSE \E changes \in {compare_baseline(pwBaseline.tournaments, norm.events)} :
           \E posts \in {posts_of(changes)} :
             IF posts = <<>> THEN quiet("nochange", "none")
             ELSE IF fail = "post" THEN quiet("raised", "post")
             ELSE \E w \in {write_json(pwBaseline, pwTmp, norm.events, fail)} :
                    /\ pwBaseline' = w.target
                    /\ pwTmp' = w.tmp
                    /\ UNCHANGED pwBaselineSent
                    /\ pwLast' = [stage |-> IF w.raised THEN "raised" ELSE "updated",
                                  gate |-> gate, events |-> norm.events,
                                  sent |-> posts, fail |-> fail]

\* what the results API answers over the season
PwResults ==
  { ListOf(<<>>), ListOf(<<InProgress>>), ListOf(<<SecondDay, MissedCut>>),
    ListOf(<<Done, MissedCut>>), ListOf(<<MissedCut>>), ListOf(<<Done, Unkeyed, Numeric>>),
    ListOf(<<InProgress, NotDict>>), DictOf("Results", <<Done>>) }

PwHours == {7, 8}

PwMinutes == {0, 30}

NoPwRun == [stage |-> "init", gate |-> FALSE, events |-> <<>>, sent |-> <<>>, fail |-> "none"]

InitPlaywright ==
  /\ pwBaseline = NoFile
  /\ pwTmp = NoFile
  /\ pwBaselineSent = 0
  /\ pwLast = NoPwRun

(***************************************************************************)
(* dpwt_marcel_bot.py: one Discord update per finished round of the player *)
(***************************************************************************)
VARIABLES
  mbState,      \* event id -> .state/<event_id>_state.json
  mbRoundPosts, \* <<event id, round>> -> round updates handed to post_discord
  mbWrapPosts,  \* event id -> "Tagesabschluss" blocks handed to post_discord
  mbLast        \* what the last invocation of main did

mbVars == <<mbState, mbRoundPosts, mbWrapPosts, mbLast>>

\* bot.py, the driver under __main__
VARIABLES
  driver        \* [pc, tries, left, active, polls, raised]

drVars == <<driver>>

MaxMbPosts == 2

MbEventIds == {300, 301}

NoStateFile == [exists |-> FALSE, posted_rounds |-> <<>>, posted_all_finished |-> FALSE]

\* the index of the first row of the player in players, 0 for None
find_player_row(players, pid) ==
  IF \E i \in DOMAIN players : players[i].PlayerId = pid
  THEN CHOOSE i \in DOMAIN players :
         /\ players[i].PlayerId = pid
         /\ \A j \in 1..(i - 1) : players[j].PlayerId # pid
  ELSE 0

round_completed_for(player, rno) ==
  IF \E i \in DOMAIN player.Rounds :
       player.Rounds[i].RoundNo = rno /\ player.Rounds[i].Strokes # None
  THEN player.Rounds[CHOOSE i \in DOMAIN player.Rounds :
                       /\ player.Rounds[i].RoundNo = rno
                       /\ player.Rounds[i].Strokes # None
                       /\ \A j \in 1..(i - 1) :
                            ~(player.Rounds[j].RoundNo = rno /\ player.Rounds[j].Strokes # None)
                    ].Strokes
  ELSE None

all_players_finished_round(players, rno) ==
  \A i \in DOMAIN players :
    \E j \in DOMAIN players[i].Rounds :
      players[i].Rounds[j].RoundNo = rno /\ players[i].Rounds[j].Strokes # None

load_state(event_id) ==
  IF mbState[event_id].exists
  THEN [posted_rounds |-> mbState[event_id].posted_rounds,
        posted_all_finished |-> mbState[event_id].posted_all_finished]
  ELSE [posted_rounds |-> <<>>, posted_all_finished |-> FALSE]

save_state(data) ==
  [exists |-> TRUE, posted_rounds |-> data.posted_rounds,
   posted_all_finished |-> data.posted_all_finished]

\* the loop of lines 381-403 without the test of line 382
RECURSIVE rounds_update_loop_unmarked(_, _, _, _)
rounds_update_loop_unmarked(st, me, rno, posts) ==
  IF rno > 4 THEN [state |-> st, posts |-> posts]
  ELSE IF round_completed_for(me, rno) = None THEN rounds_update_loop_unmarked(st, me, rno + 1, posts)
  ELSE rounds_update_loop_unmarked([st EXCEPT !.posted_rounds = Append(@, rno)], me, rno + 1,
                           Append(posts, rno))

\* the loop of lines 381-403 from round rno on: st is the state so far, posts
\* the rounds handed to post_discord so far
RECURSIVE rounds_update_loop(_, _, _, _)
rounds_update_loop(st, me, rno, posts) ==
  IF rno > 4 THEN [state |-> st, posts |-> posts]
  ELSE IF rno \in Range(st.posted_rounds) THEN rounds_update_loop(st, me, rno + 1, posts)
  ELSE IF round_completed_for(me, rno) = None THEN rounds_update_loop(st, me, rno + 1, posts)
  ELSE rounds_update_loop([st EXCEPT !.posted_rounds = Append(@, rno)], me, rno + 1,
                  Append(posts, rno))

\* the loop of lines 405-419: the wrap-up of the first round all players
\* have finished, unless one was posted before
wrap_loop(st, players) ==
  IF ~st.posted_all_finished /\ \E rno \in 1..4 : all_players_finished_round(players, rno)
  THEN [state |-> [st EXCEPT !.posted_all_finished = TRUE], wrap |-> TRUE]
  ELSE [state |-> st, wrap |-> FALSE]

\* the save of lines 421-422
save_if_posted(event_id, did_post, st) ==
  IF did_post THEN [mbState EXCEPT ![event_id] = save_state(st)] ELSE mbState

NoStrokes == [r \in 1..4 |-> None]

NoMbRun ==
  [stage |-> "init", event |-> None, posts |-> <<>>, wrap |-> FALSE, wrote |-> FALSE,
   strokes |-> NoStrokes, before |-> <<>>]

\* main from load_state on, for the event event_id and its leaderboard
MbPost(event_id, players) ==
  \E me \in {players[find_player_row(players, PLAYER_ID)]} :
  \E rl \in {rounds_update_loop(load_state(event_id), me, 1, <<>>)} :
  \E wl \in {wrap_loop(rl.state, players)} :
  \E did_post \in {rl.posts # <<>> \/ wl.wrap} :
    /\ \A r \in 1..4 : mbRoundPosts[<<event_id, r>>] < MaxMbPosts
    /\ mbWrapPosts[event_id] < MaxMbPosts
    /\ mbRoundPosts' = [k \in MbEventIds \X (1..4) |->
                          mbRoundPosts[k] +
                            (IF k[1] = event_id /\ k[2] \in Range(rl.posts) THEN 1 ELSE 0)]
    /\ mbWrapPosts' = [mbWrapPosts EXCEPT ![event_id] = @ + (IF wl.wrap THEN 1 ELSE 0)]
    /\ mbState' = save_if_posted(event_id, did_post, wl.state)
    /\ mbLast' = [stage |-> "done", event |-> event_id, posts |-> rl.posts,
                  wrap |-> wl.wrap, wrote |-> mbState'[event_id] # mbState[event_id],
                  strokes |-> [r \in 1..4 |-> round_completed_for(me, r)],
                  before |-> load_state(event_id).posted_rounds]

\* main ends before load_state: no event page, no event id, a leaderboard
\* request that raises, or a leaderboard without the player
MbAbort(stage, event_id) ==
  /\ UNCHANGED <<mbState, mbRoundPosts, mbWrapPosts>>
  /\ mbLast' = [NoMbRun EXCEPT !.stage = stage, !.event = event_id]

\* main: found is whether find_playing_this_week_url gave a page, event_id
\* what extract_event_id gave, fail the call that raises, players the
\* leaderboard's "Players"
MbMain(found, event_id, fail, players) ==
  IF ~found THEN MbAbort("no_event_url", None)
  ELSE IF event_id = None THEN MbAbort("no_event_id", None)
  ELSE IF fail = "fetch" THEN MbAbort("raised", event_id)
  ELSE IF find_player_row(players, PLAYER_ID) = 0 THEN MbAbort("no_player", event_id)
  ELSE MbPost(event_id, players)

MbBoards ==
  { <<>>,
    <<Player(1, -1, <<Rd(1, 71)>>)>>,
    <<Player(PLAYER_ID, 0, <<>>), Player(1, 0, <<>>)>>,
    <<Player(PLAYER_ID, -2, <<Rd(1, 70)>>), Player(1, 0, <<Rd(1, None)>>)>>,
    <<Player(PLAYER_ID, -3, <<Rd(1, 69)>>), Player(1, -1, <<Rd(1, 71)>>)>>,
    <<Player(PLAYER_ID, -4, <<Rd(1, None), Rd(2, 68)>>), Player(1, 0, <<Rd(1, None)>>)>>,
    <<Player(PLAYER_ID, -6, <<Rd(1, 70), Rd(2, 68)>>),
      Player(1, -1, <<Rd(1, 71), Rd(2, None)>>)>>,
    <<Player(PLAYER_ID, -6, <<Rd(1, 70), Rd(2, 68)>>),
      Player(1, -2, <<Rd(1, 71), Rd(2, 70)>>)>>,
    <<Player(PLAYER_ID, -9, <<Rd(1, 70), Rd(2, 68), Rd(3, 69)>>),
      Player(1, -2, <<Rd(1, 71), Rd(2, 70), Rd(3, None)>>)>> }

InitMarcel ==
  /\ mbState = [e \in MbEventIds |-> NoStateFile]
  /\ mbRoundPosts = [k \in MbEventIds \X (1..4) |-> 0]
  /\ mbWrapPosts = [e \in MbEventIds |-> 0]
  /\ mbLast = NoMbRun

WatchBudget == 3

\* the driver before its first poll; left is what remains of the 72 hours
\* of the watch, in sleeps of 30 minutes; polls and raised count the polls
\* of the watch and those that raised
DriverStart ==
  [pc |-> "first", tries |-> 0, left |-> 0, active |-> FALSE, polls |-> 0, raised |-> 0]

InitDriver == driver = DriverStart

\* range(3) of line 408
MaxTries == 3

\* lines 408-414 after one attempt of the first poll: raised is whether
\* run_once_and_post raised, ret what it returned
first_next(d, raised, ret) ==
  IF raised
  THEN [d EXCEPT !.tries = @ + 1, !.pc = IF d.tries + 1 < MaxTries THEN "first" ELSE "exit"]
  ELSE IF ret
  THEN [d EXCEPT !.tries = @ + 1, !.active = TRUE, !.pc = "watch", !.left = WatchBudget]
  ELSE [d EXCEPT !.tries = @ + 1, !.pc = "exit"]

\* what is left of the watch after a sleep of 30 minutes and the poll that
\* follows it, d half hours together
\* a watch whose budget is never spent
watch_unspent(left, d) == left

watch_spent(left, d) == left - d

\* lines 422-429 after a poll of the watch
watch_next(d, raised, ret) ==
  IF raised
  THEN [d EXCEPT !.polls = Min(@ + 1, WatchBudget), !.raised = Min(@ + 1, WatchBudget),
                 !.pc = "watch"]
  ELSE IF ~ret
  THEN [d EXCEPT !.polls = Min(@ + 1, WatchBudget), !.active = FALSE, !.pc = "exit"]
  ELSE [d EXCEPT !.polls = Min(@ + 1, WatchBudget), !.pc = "watch"]

\* bot.py, overlapping archive_update calls
VARIABLES
  arCall      \* per archive_update call: [pc, prev, sha], its position and
              \* what its last gh_read_file calls returned

arVars == <<arCall>>

(***************************************************************************)
(* the key functions and choose_current, applied to drawn inputs           *)
(***************************************************************************)
VARIABLES
  fnArg,      \* the input a function is applied to
  fnRes       \* [done, ...]: what it returned

fnVars == <<fnArg, fnRes>>

\* two records of the tournament (name, end): one with the provider ids, one
\* with the id fields absent
WithIds(a) == Item(a.cid, a.eid, a.name, a.end, "", "", "", "", "")

WithoutIds(a) == Item(0, 0, a.name, a.end, "", "", "", "", "")

KeyInputs ==
  [name : {"Open", "Masters", "Classic"},
   end  : {"2025-04-01", "2025-05-01", "2025-06-01"},
   cid  : {0, 201, 202},
   eid  : {0, 301, 302}]

NoKeys == [done |-> FALSE, with |-> "", without |-> "", pwWith |-> "", pwWithout |-> ""]

InitKeyInput == fnArg \in KeyInputs /\ fnRes = NoKeys

\* the key functions applied to the two records
KeyApply ==
  /\ ~fnRes.done
  /\ fnRes' = [done |-> TRUE,
               with |-> ev_key(WithIds(fnArg)), without |-> ev_key(WithoutIds(fnArg)),
               pwWith |-> to_key(WithIds(fnArg)), pwWithout |-> to_key(WithoutIds(fnArg))]
  /\ UNCHANGED fnArg
  /\ UNCHANGED <<botVars, monVars, lbVars, pwVars, arVars, liveVars, mbVars, drVars>>

\* an end date 9999 days from now
Far(now) == now + BestDeltaDays * 24

ChooseEnds(now) == {None, now - 24, now + 24, now + 48, Far(now)}

\* the result lists of up to three results with these end dates
ChooseLists(now) ==
  {<<>>}
  \cup {<<Ev(101, a, <<>>, None, None)>> : a \in ChooseEnds(now)}
  \cup {<<Ev(101, a, <<>>, None, None), Ev(102, b, <<>>, None, None)>> :
          a \in ChooseEnds(now), b \in ChooseEnds(now)}
  \cup {<<Ev(101, a, <<>>, None, None), Ev(102, b, <<>>, None, None),
          Ev(103, c, <<>>, None, None)>> :
          a \in ChooseEnds(now), b \in ChooseEnds(now), c \in ChooseEnds(now)}

ChooseNows == {0, 12}

InitChooseInput ==
  /\ \E now \in ChooseNows : fnArg \in [results : ChooseLists(now), now : {now}]
  /\ fnRes = [done |-> FALSE, best |-> 0]

\* choose_current applied: best is the index of the result in sorted(results)
ChooseApply ==
  /\ ~fnRes.done
  /\ fnRes' = [done |-> TRUE, best |-> choose_current(fnArg.results, fnArg.now)]
  /\ UNCHANGED fnArg
  /\ UNCHANGED <<botVars, monVars, lbVars, pwVars, arVars, liveVars, mbVars, drVars>>

\* end dates around the two edges of the window of a poll at hour 0
ActiveEnds == {None, -13, -12, 0, 72, 73}

\* Rounds lists: none, two rounds, four rounds, four rounds of which round 3
\* has no strokes, rounds 2..4 only
ActiveRounds ==
  { <<>>, R12, R1234, <<Rd(1, 70), Rd(2, 68), Rd(3, None), Rd(4, 71)>>,
    <<Rd(2, 68), Rd(3, 72), Rd(4, 71)>> }

ActiveEvents ==
  {Ev(101, end, rounds, total, to_par) :
     end \in ActiveEnds, rounds \in ActiveRounds, total \in {None, 281},
     to_par \in {None, -7, 0}}

InitActiveInput ==
  /\ fnArg \in [e : ActiveEvents, now : {0}]
  /\ fnRes = [done |-> FALSE, active |-> FALSE]

\* event_active applied
ActiveApply ==
  /\ ~fnRes.done
  /\ fnRes' = [done |-> TRUE, active |-> event_active(fnArg.e, fnArg.now)]
  /\ UNCHANGED fnArg
  /\ UNCHANGED <<botVars, monVars, lbVars, pwVars, arVars, liveVars, mbVars, drVars>>

(***************************************************************************)
(* bot.py: the state block in the body of the issue.  A body is a sequence *)
(* of tokens: the two markers, a line break, a piece of other text, or the *)
(* text of a JSON document                                                 *)
(***************************************************************************)
MaxBodyLen == 4

STATE_JSON_START == "<!--STATE_JSON_START-->"

STATE_JSON_END == "<!--STATE_JSON_END-->"

LineBreak == "\n"

PostedState ==
  [last_full_check |-> 2, last_round_hash |-> EmptyDict, posted_final_for |-> <<"101">>]

\* the states written and the text json.dumps gives for each
JsonDocs ==
  { [text |-> "{}", state |-> EmptyDict],
    [text |-> "{default}", state |-> DefaultState],
    [text |-> "{posted}", state |-> PostedState] }

json_dumps(state) == (CHOOSE d \in JsonDocs : d.state = state).text

\* json.loads of a text, {} where gh_issue_get_state catches its exception
json_loads(blob) ==
  IF Len(blob) = 1 /\ \E d \in JsonDocs : d.text = blob[1]
  THEN (CHOOSE d \in JsonDocs : d.text = blob[1]).state
  ELSE EmptyDict

\* sep in body
contains(body, sep) == \E i \in DOMAIN body : body[i] = sep

first_index(body, sep) ==
  CHOOSE k \in DOMAIN body : body[k] = sep /\ \A j \in 1..(k - 1) : body[j] # sep

\* body.split(sep): the pieces between the occurrences of sep
RECURSIVE split(_, _)
split(body, sep) ==
  IF ~contains(body, sep) THEN <<body>>
  ELSE <<SubSeq(body, 1, first_index(body, sep) - 1)>>
       \o split(SubSeq(body, first_index(body, sep) + 1, Len(body)), sep)

\* str.strip of a piece: the line breaks at its ends go
RECURSIVE strip_ws(_)
strip_ws(piece) ==
  IF piece = <<>> THEN piece
  ELSE IF piece[1] = LineBreak THEN strip_ws(Tail(piece))
  ELSE IF piece[Len(piece)] = LineBreak THEN strip_ws(SubSeq(piece, 1, Len(piece) - 1))
  ELSE piece

\* gh_issue_get_state, lines 228-237, on the body of an existing issue
get_state_of_body(body) ==
  IF contains(body, STATE_JSON_START) /\ contains(body, STATE_JSON_END)
  THEN json_loads(strip_ws(split(split(body, STATE_JSON_START)[2], STATE_JSON_END)[1]))
  ELSE EmptyDict

\* gh_issue_set_state, lines 251-258: the body sent with the PATCH
set_state_in_body(body_old, state) ==
  IF contains(body_old, STATE_JSON_START) /\ contains(body_old, STATE_JSON_END)
  THEN split(body_old, STATE_JSON_START)[1]
       \o <<STATE_JSON_START, LineBreak, json_dumps(state), LineBreak, STATE_JSON_END>>
       \o split(body_old, STATE_JSON_END)[2]
  ELSE body_old
       \o <<LineBreak, LineBreak, STATE_JSON_START, LineBreak, json_dumps(state), LineBreak,
            STATE_JSON_END>>

BodyTokens == {STATE_JSON_START, STATE_JSON_END, LineBreak, "text"}

Bodies == UNION {[1..n -> BodyTokens] : n \in 0..MaxBodyLen}

InitBodyInput ==
  /\ fnArg \in [body : Bodies, state : {d.state : d \in JsonDocs}]
  /\ fnRes = [done |-> FALSE, body |-> <<>>, got |-> EmptyDict]

\* gh_issue_set_state(state) on an issue with this body, then
\* gh_issue_get_state
BodyApply ==
  /\ ~fnRes.done
  /\ fnRes' = [done |-> TRUE,
               body |-> set_state_in_body(fnArg.body, fnArg.state),
               got |-> get_state_of_body(set_state_in_body(fnArg.body, fnArg.state))]
  /\ UNCHANGED fnArg
  /\ UNCHANGED <<botVars, monVars, lbVars, pwVars, arVars, liveVars, mbVars, drVars>>

IdleFn == fnArg = <<>> /\ fnRes = [done |-> FALSE]

Invocations == {1, 2}

NotLoaded == [has |-> FALSE, state |-> DefaultState]

(***************************************************************************)
(* bot.py : archive_update calls that overlap on the GitHub-backed archive *)
(* A file's sha stands for its content: the PUT of gh_write_file is        *)
(* accepted when the sha it sends is that of the file as it is then, and   *)
(* refused (raise_for_status raises) otherwise.                            *)
(***************************************************************************)
\* the finished events the two calls archive
ArEvent(i) == IF i = 1 THEN Ev(101, -24, R1234, 281, -7) ELSE Ev(102, -30, R1234, 275, -9)

\* an event archived earlier in the season
ArEarlier == Ev(103, -240, R1234, 284, 0)

\* archive_update, lines 322-333: the EventId is in the JSONL that was read
jsonl_has(prev_jsonl, e) == \E k \in DOMAIN prev_jsonl : prev_jsonl[k].EventId = e.EventId

\* lines 331-333: the lines read, with the event's record appended
jsonl_add(prev_jsonl, e) == Append(prev_jsonl, ArchiveRecord(e))

\* lines 343-344: the line is in the CSV that was read
csv_has(prev_csv, e) == prev_csv # <<>> /\ ArchiveRecord(e) \in Range(prev_csv)

\* line 344: the content read, with the event's line appended
csv_add(prev_csv, e) == Append(prev_csv, ArchiveRecord(e))

ArStart == [pc |-> "idle", prev |-> <<>>, sha |-> <<>>]

InitArchive == arCall = [i \in Invocations |-> ArStart]

ArFrame ==
  /\ UNCHANGED <<env, clock, issue, stateFile, finalSent, r2was70, last, loaded>>
  /\ UNCHANGED <<monVars, lbVars, fnVars, pwVars, liveVars, mbVars, drVars>>

\* archive_update, line 322: prev_jsonl, _ = gh_read_file(path_jsonl)
ArReadJsonl(i) ==
  /\ arCall[i].pc = "idle"
  /\ \E prev \in {gh_read_file(jsonl)} :
       arCall' = [arCall EXCEPT ![i] =
                    [pc |-> IF jsonl_has(prev, ArEvent(i)) THEN "jsonl_done" ELSE "jsonl_read",
                     prev |-> prev, sha |-> <<>>]]
  /\ UNCHANGED <<jsonl, csv>>
  /\ ArFrame

\* gh_write_file, line 305: old_content, sha = gh_read_file(path)
ArShaJsonl(i) ==
  /\ arCall[i].pc = "jsonl_read"
  /\ arCall' = [arCall EXCEPT ![i].pc = "jsonl_sha", ![i].sha = gh_read_file(jsonl)]
  /\ UNCHANGED <<jsonl, csv>>
  /\ ArFrame

\* gh_write_file, lines 312-313: the PUT of the lines read at line 322 plus
\* the new record, under the sha read at line 305
ArPutJsonl(i) ==
  /\ arCall[i].pc = "jsonl_sha"
  /\ IF arCall[i].sha = jsonl
     THEN /\ jsonl' = jsonl_add(arCall[i].prev, ArEvent(i))
          /\ arCall' = [arCall EXCEPT ![i].pc = "jsonl_done"]
     ELSE /\ UNCHANGED jsonl
          /\ arCall' = [arCall EXCEPT ![i].pc = "raised"]
  /\ UNCHANGED csv
  /\ ArFrame

\* archive_update, line 336: prev_csv, _ = gh_read_file(path_csv)
ArReadCsv(i) ==
  /\ arCall[i].pc = "jsonl_done"
  /\ \E prev \in {gh_read_file(csv)} :
       arCall' = [arCall EXCEPT ![i] =
                    [pc |-> IF csv_has(prev, ArEvent(i)) THEN "done" ELSE "csv_read",
                     prev |-> prev, sha |-> <<>>]]
  /\ UNCHANGED <<jsonl, csv>>
  /\ ArFrame

\* gh_write_file for the summary: the sha is read again
ArShaCsv(i) ==
  /\ arCall[i].pc = "csv_read"
  /\ arCall' = [arCall EXCEPT ![i].pc = "csv_sha", ![i].sha = gh_read_file(csv)]
  /\ UNCHANGED <<jsonl, csv>>
  /\ ArFrame

\* gh_write_file for the summary: the PUT
ArPutCsv(i) ==
  /\ arCall[i].pc = "csv_sha"
  /\ IF arCall[i].sha = csv
     THEN /\ csv' = csv_add(arCall[i].prev, ArEvent(i))
          /\ arCall' = [arCall EXCEPT ![i].pc = "done"]
     ELSE /\ UNCHANGED csv
          /\ arCall' = [arCall EXCEPT ![i].pc = "raised"]
  /\ UNCHANGED jsonl
  /\ ArFrame

NoPoll ==
  [stage |-> "init", raised |-> FALSE, payload |-> Payload(<<>>),
   now |-> 0, pre |-> "default", active |-> FALSE, cur |-> "", sent |-> <<>>,
   stored |-> FALSE, state |-> DefaultState, rerun |-> FALSE, prevSent |-> 0,
   was70 |-> FALSE, fail |-> "none", dup |-> FALSE]

InitBot ==
  /\ IdleFn
  /\ InitPlaywright
  /\ InitArchive
  /\ InitLive /\ InitMarcel /\ InitDriver
  /\ InitMonitor
  /\ InitLeaderboard
  /\ lbEnabled = FALSE
  /\ env \in {"local", "issue"}
  /\ clock = 0
  /\ issue = [kind |-> "absent", data |-> DefaultState]
  /\ stateFile = [kind |-> "missing", data |-> DefaultState]
  /\ jsonl = <<>>
  /\ csv = <<>>
  /\ finalSent = [k \in Keys |-> 0]
  /\ r2was70 = FALSE
  /\ last = NoPoll
  /\ loaded = [i \in Invocations |-> NotLoaded]

\* time passes between two polls
Tick ==
  /\ \E d \in TickSteps : clock + d <= MaxClock /\ clock' = clock + d
  /\ UNCHANGED <<env, issue, stateFile, jsonl, csv, finalSent, r2was70, last, loaded>>
  /\ UNCHANGED <<monVars, lbVars, fnVars, pwVars, arVars, liveVars, mbVars, drVars>>

Hits == IF env = "issue" /\ issue.kind = "absent" THEN BOOLEAN ELSE {TRUE}

\* a poll of the results API, any call of which may raise
Poll ==
  /\ \E p \in Payloads(clock), fail \in FailPoints, hit \in Hits : RunOnceAndPost(p, fail, hit)
  /\ UNCHANGED loaded
  /\ UNCHANGED <<monVars, lbVars, fnVars, pwVars, arVars, liveVars, mbVars, drVars>>

\* a poll during which no send, archive or save call raises
PollRounds ==
  /\ \E p \in RoundPayloads(clock), fail \in {"none", "fetch"}, hit \in Hits :
       RunOnceAndPost(p, fail, hit)
  /\ UNCHANGED loaded
  /\ UNCHANGED <<monVars, lbVars, fnVars, pwVars, arVars, liveVars, mbVars, drVars>>

\* two invocations of bot.py that overlap (two workflow runs, or a scheduled
\* run next to the 30-minute watch of an earlier one)
OvLoad ==
  /\ \E i \in Invocations :
       /\ ~loaded[i].has
       /\ loaded' = [loaded EXCEPT ![i] = [has |-> TRUE, state |-> state_load]]
  /\ UNCHANGED <<env, clock, issue, stateFile, jsonl, csv, finalSent, r2was70, last>>
  /\ UNCHANGED <<monVars, lbVars, fnVars, pwVars, arVars, liveVars, mbVars, drVars>>

\* an invocation goes on from the state it loaded, to its state_save
OvFinish ==
  /\ \E i \in Invocations :
       /\ loaded[i].has
       /\ \E p \in Payloads(clock), hit \in Hits : RunFrom(loaded[i].state, p, "none", hit)
       /\ loaded' = [loaded EXCEPT ![i] = NotLoaded]
  /\ UNCHANGED <<monVars, lbVars, fnVars, pwVars, arVars, liveVars, mbVars, drVars>>

InitOverlap == InitBot /\ env = "issue"

\* The snapshots of event 101 over its life: two rounds played, four rounds
\* played and no total yet, finished a day ago, finished a day before its end
\* date.
FinishPayloads(now) ==
  { Payload(<<Ev(101, now + 24, R12, None, None)>>),
    Payload(<<Ev(101, now + 24, R1234, None, None)>>),
    Payload(<<Ev(101, now - 24, R1234, 281, -7)>>),
    Payload(<<Ev(101, now + 24, R1234, 281, -7)>>) }

\* a poll in which fetch, send, archive and save succeed
FinPoll ==
  /\ \E p \in FinishPayloads(clock) : RunOnceAndPost(p, "none", TRUE)
  /\ UNCHANGED loaded
  /\ UNCHANGED <<monVars, lbVars, fnVars, pwVars, arVars, liveVars, mbVars, drVars>>

\* a stored last_full_check seen from a time origin moved d hours on; one that
\* is ThrottleHours or more in the past stays where it is, every such value
\* giving the same answer at line 363
Aged(t, d) == IF t <= clock - ThrottleHours THEN t ELSE t - d

Age(file, d) ==
  IF file.kind = "json" THEN [file EXCEPT !.data.last_full_check = Aged(@, d)] ELSE file

\* time passes between two polls, without end: within the modelled time line
\* now grows by d, beyond it the origin of the time line moves on by d (the
\* program uses the stored time only in now - last_full)
Elapse ==
  /\ \E d \in TickSteps :
       IF clock + d <= MaxClock
       THEN clock' = clock + d /\ UNCHANGED <<issue, stateFile>>
       ELSE clock' = clock /\ issue' = Age(issue, d) /\ stateFile' = Age(stateFile, d)
  /\ UNCHANGED <<env, jsonl, csv, finalSent, r2was70, last, loaded>>
  /\ UNCHANGED <<monVars, lbVars, fnVars, pwVars, arVars, liveVars, mbVars, drVars>>

\* what the results API returns during a run of the driver: no results, or
\* event 101 at a point of its life
DriverPayloads(now) == FinishPayloads(now) \cup {Payload(<<>>)}

\* what run_once_and_post returned in the poll recorded in l
returned(l) == l.active

DriverFrame == UNCHANGED <<monVars, lbVars, fnVars, pwVars, arVars, liveVars, mbVars>>

\* lines 408-414: one attempt of the first poll
DrFirst ==
  /\ driver.pc = "first"
  /\ driver.tries < MaxTries
  /\ \E p \in DriverPayloads(clock), fail \in {"none", "fetch"}, hit \in Hits :
       RunOnceAndPost(p, fail, hit)
  /\ driver' = first_next(driver, last'.raised, returned(last'))
  /\ UNCHANGED loaded
  /\ DriverFrame

\* lines 420-421: the watch goes on and sleeps 30 minutes; the sleep and
\* the poll after it take d half hours, which moves the clock of full hours
\* by h
DrSleep ==
  /\ driver.pc = "watch"
  /\ driver.left > 0
  /\ \E d \in {1, 2} : \E h \in {d \div 2, (d + 1) \div 2} :
       /\ driver' = [driver EXCEPT !.left = watch_spent(@, d), !.pc = "poll"]
       /\ IF clock + h <= MaxClock
          THEN clock' = clock + h /\ UNCHANGED <<issue, stateFile>>
          ELSE clock' = clock /\ issue' = Age(issue, h) /\ stateFile' = Age(stateFile, h)
  /\ UNCHANGED <<env, jsonl, csv, finalSent, r2was70, last, loaded>>
  /\ DriverFrame

\* lines 422-429: the poll of the watch
DrPoll ==
  /\ driver.pc = "poll"
  /\ \E p \in DriverPayloads(clock), fail \in {"none", "fetch"}, hit \in Hits :
       RunOnceAndPost(p, fail, hit)
  /\ driver' = watch_next(driver, last'.raised, returned(last'))
  /\ UNCHANGED loaded
  /\ DriverFrame

\* line 420: the 72 hours are over
DrEnd ==
  /\ driver.pc = "watch"
  /\ driver.left <= 0
  /\ driver' = [driver EXCEPT !.pc = "exit"]
  /\ UNCHANGED botVars
  /\ DriverFrame

NextDriver == DrFirst \/ DrSleep \/ DrPoll \/ DrEnd

NextFinish == FinPoll \/ Elapse

NextOverlap == OvLoad \/ OvFinish \/ Tick

NextBot == Poll \/ Tick

NextRounds == PollRounds \/ Tick

\* the state of bot.py while another program is looked at
IdleBot ==
  /\ env = "local"
  /\ clock = 0
  /\ issue = [kind |-> "absent", data |-> DefaultState]
  /\ stateFile = [kind |-> "missing", data |-> DefaultState]
  /\ jsonl = <<>>
  /\ csv = <<>>
  /\ finalSent = [k \in Keys |-> 0]
  /\ r2was70 = FALSE
  /\ last = NoPoll
  /\ loaded = [i \in Invocations |-> NotLoaded]

\* dpwt_monitor_discord.py: time passes between two runs
MonTick ==
  /\ \E d \in MonTickSteps : monClock + d <= MaxMonClock /\ monClock' = monClock + d
  /\ UNCHANGED <<baseline, lastSeen, events, monLast, baselineSent>>
  /\ UNCHANGED <<botVars, lbVars, fnVars, pwVars, arVars, liveVars, mbVars, drVars>>

\* dpwt_monitor_discord.py: a scheduled run
MonRun ==
  /\ \E raw \in RawResults, live \in BOOLEAN, fail \in BOOLEAN : MonMain(raw, live, fail)
  /\ UNCHANGED <<botVars, lbVars, fnVars, pwVars, arVars, liveVars, mbVars, drVars>>

InitMon == IdleBot /\ IdleFn /\ InitPlaywright /\ InitArchive /\ InitLive /\ InitMarcel /\ InitDriver /\ InitMonitor /\ InitLeaderboard /\ lbEnabled = FALSE

NextMon == MonRun \/ MonTick

\* bot.py and dpwt_monitor_discord.py next to each other, each polling a
\* tournament in progress or a finished one, no call raising
GatePoll ==
  /\ \E p \in { Payload(<<Ev(101, clock + 24, R12, None, None)>>),
                 Payload(<<Ev(101, clock - 24, R1234, 281, -7)>>) } :
       RunOnceAndPost(p, "none", TRUE)
  /\ UNCHANGED loaded
  /\ UNCHANGED <<monVars, lbVars, fnVars, pwVars, arVars, liveVars, mbVars, drVars>>

GateMonRun ==
  /\ \E raw \in {ListOf(<<InProgress>>), ListOf(<<Done, MissedCut>>)}, live \in BOOLEAN :
       MonMain(raw, live, FALSE)
  /\ UNCHANGED <<botVars, lbVars, fnVars, pwVars, arVars, liveVars, mbVars, drVars>>

NextGate == GatePoll \/ Tick \/ GateMonRun \/ MonTick

\* ms_leaderboard_bot.py: time passes between two runs
LbTick ==
  /\ \E d \in LbTickSteps : lbClock + d <= MaxLbClock /\ lbClock' = lbClock + d
  /\ UNCHANGED <<lbEnabled, lbIssue, reminders, lbLast>>
  /\ UNCHANGED <<botVars, monVars, fnVars, pwVars, arVars, liveVars, mbVars, drVars>>

\* ms_leaderboard_bot.py: a scheduled run, any call of which may raise
LbRun ==
  /\ \E got \in Pages, data \in Catalogues : LbMain(got, data)
  /\ UNCHANGED <<botVars, monVars, fnVars, pwVars, arVars, liveVars, mbVars, drVars>>

InitLb == IdleBot /\ IdleFn /\ InitPlaywright /\ InitArchive /\ InitLive /\ InitMarcel /\ InitDriver /\ InitMonitor /\ InitLeaderboard

NextLb == LbRun \/ LbTick

\* ms_leaderboard_bot.py during tournament A: the player page shows A or no
\* tournament, the results API lists A or nothing yet
LivePages == {NoGot, Got(-1, Site \o PathA)}

LiveCatalogues == {<<>>, <<ResultA>>}

\* a scheduled run, with the round messages it delivered added to the history
LiveRun ==
  /\ \A k \in RoundKeys : roundSent[k] < MaxRoundSent
  /\ \E got \in LivePages, data \in LiveCatalogues : LbMain(got, data)
  /\ roundSent' = [k \in RoundKeys |->
                     IF k[2] = lbLast'.event
                     THEN roundSent[k] + CountRound(lbLast'.sent, k[1], k[3])
                     ELSE roundSent[k]]
  /\ lbUnsaved' = (lbUnsaved \/ ~lbLast'.saved)
  /\ lbComplete' = lbComplete \cup {<<lbLast'.event, r>> : r \in lbLast'.complete}
  /\ UNCHANGED <<botVars, monVars, fnVars, pwVars, arVars, mbVars, drVars>>

NextLive == LiveRun \/ LbTick

IdleAll == IdleBot /\ InitMonitor /\ InitLeaderboard /\ lbEnabled = FALSE /\ InitPlaywright /\ InitArchive /\ InitLive /\ InitMarcel /\ InitDriver

InitKeys == IdleAll /\ InitKeyInput

NextKeys == KeyApply

InitChoose == IdleAll /\ InitChooseInput

NextChoose == ChooseApply

InitActive == IdleAll /\ InitActiveInput

NextActive == ActiveApply

InitBody == IdleAll /\ InitBodyInput

NextBody == BodyApply

\* dpwt_monitor_discord_playwright.py: a scheduled run
PwRun ==
  /\ \E data \in PwResults, live \in BOOLEAN, hour \in PwHours, minute \in PwMinutes,
        fail \in PwFailPoints : PwMain(data, live, hour, minute, fail)
  /\ UNCHANGED <<botVars, monVars, lbVars, fnVars, arVars, liveVars, mbVars, drVars>>

InitPw == IdleAll /\ IdleFn

NextPw == PwRun

\* both monitors keep data/baseline-<season>.json: a season is watched by
\* one of them, dpwt_monitor_discord.py ...
SeasonMonRun == pwLast = NoPwRun /\ MonRun

\* the hours between two runs count for the throttle of dpwt_monitor_discord.py
SeasonMonTick == pwLast = NoPwRun /\ MonTick

\* ... or dpwt_monitor_discord_playwright.py
SeasonPwRun == monLast = NoMonRun /\ monClock = 0 /\ PwRun

NextSeason == SeasonMonRun \/ SeasonMonTick \/ SeasonPwRun

\* bot.py and ms_leaderboard_bot.py on one state issue (same GITHUB_TOKEN,
\* GH_REPO and STATE_ISSUE_NUMBER): `issue` holds the whole JSON block, the
\* entry of ms_leaderboard_bot.py under its key "leaderboard_bot"
BlankIssue == [kind |-> "blank", data |-> DefaultState]

InitShared ==
  /\ IdleFn /\ InitPlaywright /\ InitArchive /\ InitLive /\ InitMarcel /\ InitDriver /\ InitMonitor /\ InitLeaderboard /\ lbEnabled = TRUE
  /\ env = "issue"
  /\ clock = 0
  /\ issue \in {[kind |-> "absent", data |-> DefaultState], BlankIssue}
  /\ stateFile = [kind |-> "missing", data |-> DefaultState]
  /\ jsonl = <<>>
  /\ csv = <<>>
  /\ finalSent = [k \in Keys |-> 0]
  /\ r2was70 = FALSE
  /\ last = NoPoll
  /\ loaded = [i \in Invocations |-> NotLoaded]

\* bot.py: a poll in which no call to the network raises
SharedPoll ==
  /\ \E p \in { Payload(<<>>), Payload(<<Ev(101, clock + 24, R12, None, None)>>),
                 Payload(<<Ev(102, clock - 30, R1234, 281, -7)>>) }, hit \in Hits :
       RunOnceAndPost(p, "none", hit)
  /\ UNCHANGED loaded
  /\ UNCHANGED <<monVars, lbVars, fnVars, pwVars, arVars, liveVars, mbVars, drVars>>

\* ms_leaderboard_bot.state_load: st, with the default entry put in place
shared_state_load ==
  IF "leaderboard_bot" \in DOMAIN gh_issue_get_state THEN gh_issue_get_state
  ELSE Put(gh_issue_get_state, "leaderboard_bot", DefaultL)

\* ms_leaderboard_bot.py: a run of main that reaches its state_save(st)
SharedLbRun ==
  /\ \E got \in {NoGot, Got(-1, Site \o PathA)}, data \in {<<>>, <<ResultA>>}, hit \in Hits :
     \E st \in {shared_state_load} :
     \E pre \in {lb_prepare(st.leaderboard_bot, got, data, clock)} :
     \E lb \in (IF pre.exit = "window" THEN Leaderboards ELSE {NoLeaderboard}) :
     \E run \in {lb_rounds(pre, lb)} :
       issue' = gh_issue_set_state(Put(st, "leaderboard_bot", run.L), hit)
  /\ UNCHANGED <<env, clock, stateFile, jsonl, csv, finalSent, r2was70, last, loaded>>
  /\ UNCHANGED <<monVars, lbVars, fnVars, pwVars, arVars, liveVars, mbVars, drVars>>

NextShared == SharedPoll \/ Tick \/ SharedLbRun

\* two archive_update calls, for events 101 and 102, on an archive that is
\* empty or holds an earlier event
InitArchiveRun ==
  /\ IdleFn /\ InitPlaywright /\ InitArchive /\ InitLive /\ InitMarcel /\ InitDriver /\ InitMonitor /\ InitLeaderboard
  /\ lbEnabled = FALSE
  /\ env = "repo"
  /\ clock = 0
  /\ issue = [kind |-> "absent", data |-> DefaultState]
  /\ stateFile = [kind |-> "missing", data |-> DefaultState]
  /\ \E old \in {<<>>, <<ArchiveRecord(ArEarlier)>>} : jsonl = old /\ csv = old
  /\ finalSent = [k \in Keys |-> 0]
  /\ r2was70 = FALSE
  /\ last = NoPoll
  /\ loaded = [i \in Invocations |-> NotLoaded]

NextArchive ==
  \E i \in Invocations :
    \/ ArReadJsonl(i) \/ ArShaJsonl(i) \/ ArPutJsonl(i)
    \/ ArReadCsv(i) \/ ArShaCsv(i) \/ ArPutCsv(i)

\* an invocation of dpwt_marcel_bot.py on what the site shows at that time
MbRun ==
  /\ \E found \in BOOLEAN, event_id \in MbEventIds \cup {None}, fail \in {"none", "fetch"},
        players \in MbBoards :
       MbMain(found, event_id, fail, players)
  /\ UNCHANGED <<botVars, monVars, lbVars, fnVars, pwVars, arVars, liveVars, drVars>>

NextMarcel == MbRun

vars == <<botVars, monVars, lbVars, fnVars, pwVars, arVars, liveVars, mbVars, drVars>>

SpecBot == InitBot /\ [][NextBot]_vars

SpecRounds == InitBot /\ [][NextRounds]_vars

SpecOverlap == InitOverlap /\ [][NextOverlap]_vars

\* the workflow schedule starts bot.py again and again, and time passes
SpecFinish == InitBot /\ [][NextFinish]_vars /\ []<><<FinPoll>>_vars /\ WF_vars(Elapse)

SpecMon == InitMon /\ [][NextMon]_vars

SpecLb == InitLb /\ [][NextLb]_vars

SpecLive == InitLb /\ [][NextLive]_vars

SpecKeys == InitKeys /\ [][NextKeys]_vars

SpecChoose == InitChoose /\ [][NextChoose]_vars

SpecActive == InitActive /\ [][NextActive]_vars

SpecBody == InitBody /\ [][NextBody]_vars

SpecGate == InitBot /\ [][NextGate]_vars

SpecSeason == InitPw /\ [][NextSeason]_vars

SpecPw == InitPw /\ [][NextPw]_vars

SpecShared == InitShared /\ [][NextShared]_vars

SpecArchive == InitArchiveRun /\ [][NextArchive]_vars

SpecMarcel == InitPw /\ [][NextMarcel]_vars

\* the driver runs on as long as it has a step to take
SpecDriver == InitBot /\ [][NextDriver]_vars /\ WF_vars(NextDriver)

(***************************************************************************)
(* bot.py : properties                                                     *)
(***************************************************************************)
LastCurrent == currentOf(last.payload, last.now)

RoundMsg(rnd, strokes) == [kind |-> "round", ev |-> "101", round |-> rnd, value |-> strokes]

FinalMsg101 == [kind |-> "final", ev |-> "101", round |-> 0, value |-> 281]

Progress12 == [k \in {"R1", "R2"} |-> IF k = "R1" THEN 70 ELSE 68]

\* C1: over any sequence of polls, aborted and retried ones included, the
\* final message of an event key is delivered at most once.
C1_AtMostOnceFinish == \A k \in Keys : finalSent[k] <= 1

\* C2: a throttled poll sends nothing and leaves the persisted state,
\* last_full_check included, as it was.
C2_ThrottleRespected ==
  [][(clock' = clock /\ last'.stage = "throttled" /\ ~last'.raised)
       => (last'.sent = <<>> /\ state_load' = state_load)]_vars

\* C3: a poll that repeats the previous poll (same payload, same now, started
\* from the state the previous poll left) sends no notification.
C3_Idempotence == last.rerun => last.sent = <<>>

\* a repeated poll whose first run delivered notifications and saved its state
C3_Witness == last.rerun /\ last.prevSent > 0 /\ last.stage = "processed" /\ ~last.raised

\* C5: a final message is delivered only for a current tournament that is
\* finished (Total, ScoreToPar and strokes of rounds 1..4 present).
C5_FinishOnlyWhenFinished ==
  (\E i \in DOMAIN last.sent : last.sent[i].kind = "final") => finished(LastCurrent)

\* C6: once round 2 was notified with 70 strokes, a poll of the still active
\* tournament that reports round 2 with 69 strokes sends a round-2 message
\* with 69 and stores 69 for round 2.
C6_RoundValueDiff ==
  ( /\ last.stage = "processed" /\ ~last.raised /\ last.active /\ last.was70
    /\ last.cur = "101"
    /\ Get(rounds_maps(LastCurrent.Rounds), 2) = 69 )
  => ( /\ RoundMsg(2, 69) \in Range(last.sent)
       /\ Get(Get(last.state.last_round_hash, "101"), "R2") = 69 )

\* C7 as stated: from the default state, the single result 101 with end date
\* now - 1 day, rounds {1:70, 2:68} and no total is active, rounds 1 and 2 are
\* notified, the progress {1:70, 2:68} is stored and no final message is sent.
C7_Scenario1Stated ==
  ( /\ last.payload = Payload(<<Ev(101, last.now - 24, R12, None, None)>>)
    /\ last.pre = "default" /\ last.stage # "init" /\ ~last.raised )
  => ( /\ last.active
       /\ last.sent = <<RoundMsg(1, 70), RoundMsg(2, 68)>>
       /\ last.state.last_round_hash = [k \in {"101"} |-> Progress12]
       /\ last.state.posted_final_for = <<>> )

\* C7 amended: the same with end date now + 1 day, which lies inside the window
\* [end - 3 days, end + 12 hours].
C7_Scenario1 ==
  ( /\ last.payload = Payload(<<Ev(101, last.now + 24, R12, None, None)>>)
    /\ last.pre = "default" /\ last.stage # "init" /\ ~last.raised )
  => ( /\ last.active
       /\ last.stage = "processed"
       /\ last.sent = <<RoundMsg(1, 70), RoundMsg(2, 68)>>
       /\ last.state.last_round_hash = [k \in {"101"} |-> Progress12]
       /\ last.state.posted_final_for = <<>> )

C7_Witness ==
  /\ last.payload = Payload(<<Ev(101, last.now + 24, R12, None, None)>>)
  /\ last.pre = "default" /\ last.stage = "processed" /\ ~last.raised
  /\ Len(last.sent) = 2

\* C8 as stated: from the progress {1:70, 2:68}, the result 101 with end date
\* now - 1 day, four rounds, Total 281 and ScoreToPar -7 gets round messages
\* for rounds 3 and 4 only and the final message in the same poll, and 101 is
\* added to posted_final_for.
C8_Scenario2Stated ==
  ( /\ last.payload = Payload(<<Ev(101, last.now - 24, R1234, 281, -7)>>)
    /\ last.pre = "progress12" /\ ~last.raised )
  => ( /\ last.sent = <<RoundMsg(3, 72), RoundMsg(4, 71), FinalMsg101>>
       /\ "101" \in Range(last.state.posted_final_for) )

\* C8 amended: that poll sends no round message (a finished tournament is not
\* active); unless it is throttled it sends the final message and adds 101 to
\* posted_final_for, and the stored progress stays {1:70, 2:68}.
C8_Scenario2 ==
  ( /\ last.payload = Payload(<<Ev(101, last.now - 24, R1234, 281, -7)>>)
    /\ last.pre = "progress12" /\ ~last.raised )
  => ( /\ ~last.active
       /\ last.stage \in {"throttled", "processed"}
       /\ last.stage = "throttled" => last.sent = <<>>
       /\ last.stage = "processed" =>
            /\ last.sent = <<FinalMsg101>>
            /\ "101" \in Range(last.state.posted_final_for)
       /\ last.state.last_round_hash["101"] = Progress12 )

C8_Witness ==
  /\ last.payload = Payload(<<Ev(101, last.now - 24, R1234, 281, -7)>>)
  /\ last.pre = "progress12" /\ ~last.raised /\ last.stage = "processed"
  /\ last.sent = <<FinalMsg101>>

\* C9: the keys of posted_final_for that state_load returns only grow.
C9_MonotonicFinished ==
  [][Range(state_load.posted_final_for) \subseteq Range(state_load'.posted_final_for)]_vars

\* C12: a poll that delivered a notification has saved the state that records
\* it, whatever raised later in the poll.
C12_NoEmissionWithoutSave == last.sent # <<>> => last.stored

\* C13: a poll in which the delivery of a notification failed has saved its
\* state update all the same.
C13_DeliveryFailureKeepsState == last.fail \in {"send1", "send2"} => last.stored

\* C14: a poll whose fetch_results fails sends nothing, writes no archive
\* record and leaves the persisted state, last_full_check included, unchanged.
C14_AcquisitionFailureNoOp ==
  [][last'.fail = "fetch"
       => /\ last'.sent = <<>>
          /\ jsonl' = jsonl /\ csv' = csv
          /\ issue' = issue /\ stateFile' = stateFile
          /\ state_load' = state_load]_vars

\* a failed fetch in a poll that had a saved state and an archive to leave alone
C14_Witness ==
  /\ last.fail = "fetch" /\ last.stage = "fetch"
  /\ state_load # DefaultState /\ jsonl # <<>>

\* C15: after a state_save to the local file that is interrupted, state_load
\* returns the state saved before or the new state.
C15_AtomicStateSave ==
  [][last'.fail \in {"save_open", "save_write"}
       => (state_load' = state_load \/ state_load' = last'.state)]_vars

\* C16: the season JSONL archive holds at most one record per EventId.
C16_AtMostOnceArchival ==
  \A i, j \in DOMAIN jsonl : jsonl[i].EventId = jsonl[j].EventId => i = j

\* archive_update was called for an EventId the file already held
C16_Witness == last.dup /\ last.fail # "archive1" /\ Len(jsonl) >= 1

\* C17: a record of the season JSONL archive and a line of the summary CSV,
\* once written, are there after every later archive_update.
C17_ArchiveAppendOnly ==
  [][Range(jsonl) \subseteq Range(jsonl') /\ Range(csv) \subseteq Range(csv')]_vars

\* the results with an end date, as indices into sorted(results)
Dated == {i \in DOMAIN fnArg.results : sorted(fnArg.results)[i].EndDate # None}

\* the distance of the end date of sorted(results)[i] to now
Dist(i) == Abs(sorted(fnArg.results)[i].EndDate - fnArg.now)

\* C20: choose_current returns None exactly when no result has an end date;
\* else it returns a result with an end date whose distance to now is minimal,
\* and of those with that distance the one with the earliest end date.
C20_ChooseCurrent ==
  fnRes.done
  => /\ fnRes.best = 0 <=> Dated = {}
     /\ fnRes.best # 0
          => /\ fnRes.best \in Dated
             /\ \A j \in Dated :
                  /\ Dist(fnRes.best) <= Dist(j)
                  /\ Dist(fnRes.best) = Dist(j)
                       => sorted(fnArg.results)[fnRes.best].EndDate
                            <= sorted(fnArg.results)[j].EndDate

\* an entry of the Rounds list gives strokes for round i
HasStrokes(e, i) ==
  \E k \in DOMAIN e.Rounds : e.Rounds[k].RoundNo = i /\ e.Rounds[k].Strokes # None

\* C21: event_active is true exactly when the tournament has an end date,
\* end - 3 days <= now <= end + 12 hours, and it is not finished (Total,
\* ScoreToPar and the strokes of rounds 1..4 all present).
C21_ActivityWindow ==
  fnRes.done
  => ( fnRes.active
       <=> /\ fnArg.e.EndDate # None
           /\ fnArg.e.EndDate - 72 <= fnArg.now
           /\ fnArg.now <= fnArg.e.EndDate + 12
           /\ ~( /\ fnArg.e.Total # None
                 /\ fnArg.e.ScoreToPar # None
                 /\ \A i \in 1..4 : HasStrokes(fnArg.e, i) ) )

\* active at the last hour of the window, with a Total but round 3 missing
C21_Witness ==
  /\ fnRes.done /\ fnRes.active
  /\ fnArg.now = fnArg.e.EndDate + 12
  /\ fnArg.e.Total # None /\ fnArg.e.ScoreToPar # None
  /\ ~HasStrokes(fnArg.e, 3)

\* the rounds whose strokes in the current result of the poll that ends the
\* step differ from the progress that poll loaded
ChangedRounds ==
  LET strokes == rounds_maps(currentOf(last'.payload, last'.now).Rounds)
      seen    == IF last'.cur \in DOMAIN state_load.last_round_hash
                 THEN state_load.last_round_hash[last'.cur] ELSE EmptyDict
  IN  {r \in 1..4 : Get(strokes, r) # None /\ Get(seen, RKey(r)) # Get(strokes, r)}

\* the rounds for which that poll delivered a round message
SentRounds ==
  {last'.sent[i].round : i \in {j \in DOMAIN last'.sent : last'.sent[j].kind = "round"}}

\* the rounds whose strokes are in the progress that poll hands to state_save
StoredRounds ==
  LET strokes == rounds_maps(currentOf(last'.payload, last'.now).Rounds)
      seen    == IF last'.cur \in DOMAIN last'.state.last_round_hash
                 THEN last'.state.last_round_hash[last'.cur] ELSE EmptyDict
  IN  {r \in 1..4 : Get(strokes, r) # None /\ Get(seen, RKey(r)) = Get(strokes, r)}

\* C23: in an active, processed poll the rounds for which a round message is
\* sent are exactly the rounds whose strokes differ from the stored value, and
\* those are the rounds whose stored value is updated.
C23_RoundsMatchProgress ==
  [][(clock' = clock /\ last'.stage = "processed" /\ ~last'.raised /\ last'.active)
       => (SentRounds = ChangedRounds /\ ChangedRounds \subseteq StoredRounds)]_vars

\* the most recent poll found event 101 as the current result, finished
Finished101 == last.stage # "init" /\ last.cur = "101" /\ finished(LastCurrent)

\* the final message of event 101 was delivered and state_load returns a
\* state with 101 in posted_final_for
Recorded101 == finalSent["101"] >= 1 /\ "101" \in Range(state_load.posted_final_for)

\* C24: when polls go on for ever, with any spacing, every call succeeding,
\* and from some poll on the current tournament 101 is found finished, then
\* eventually its final message is sent and its key is recorded.
C24_EventualFinish == <>[]Finished101 => <>Recorded101

\* C25: a poll of bot.py that finds the current tournament active is
\* processed however recent last_full_check is: every round with strokes is in
\* the stored progress and last_full_check is the now of the poll; and
\* dpwt_monitor_discord.main is never throttled when a live event is seen.
C25_NoThrottleWhileActive ==
  /\ (last.stage # "init" /\ last.active)
     => /\ last.stage = "processed"
        /\ state_load.last_full_check = last.now
        /\ \A r \in 1..4 :
             Get(rounds_maps(LastCurrent.Rounds), r) # None
             => Get(Get(state_load.last_round_hash, last.cur), RKey(r))
                  = Get(rounds_maps(LastCurrent.Rounds), r)
  /\ monLast.live => monLast.stage # "throttled"

\* an active poll at the very hour of the previous processed poll, next to a
\* run of the monitor with a live event an hour after its last check
C25_Witness ==
  /\ last.rerun /\ last.active /\ last.stage = "processed"
  /\ monLast.live /\ monLast.stage = "processed" /\ monLast.since = 1

\* C26: after a poll that is not throttled and does not raise, a poll that
\* got an empty Results list included, state_load returns a state whose
\* last_full_check is the now of that poll.
C26_LastFullCheckSet ==
  (last.stage \in {"empty", "processed"} /\ ~last.raised)
  => state_load.last_full_check = last.now

\* C18: when invocations overlap, the save of one never overwrites an update
\* that another has saved since the first loaded: the round progress and the
\* final markers in the persisted state are still there after the save.
C18_NoLostUpdate ==
  [][\A i \in Invocations :
       (loaded[i].has /\ ~loaded'[i].has)
       => /\ DOMAIN state_load.last_round_hash \subseteq DOMAIN state_load'.last_round_hash
          /\ Range(state_load.posted_final_for) \subseteq Range(state_load'.posted_final_for)]_vars

\* the EventIds of the records in the season file
Archived == {jsonl[k].EventId : k \in DOMAIN jsonl}

\* C32: when two archive_update calls for different EventIds overlap on the
\* GitHub-backed archive and both complete, the JSONL holds the records of
\* both events.
C32_BothArchived ==
  (\A i \in Invocations : arCall[i].pc = "done")
    => \A i \in Invocations : ArEvent(i).EventId \in Archived

\* C31: in every reachable persisted state, a state issue created or last
\* written by ms_leaderboard_bot.state_save included, the dict that bot.py's
\* state_load returns holds last_full_check, last_round_hash and
\* posted_final_for, and run_once_and_post never fails on a missing key.
C31_UsableState ==
  /\ StateKeys \subseteq DOMAIN state_load
  /\ last.stage # "keyerror"

(***************************************************************************)
(* dpwt_monitor_discord.py : properties                                    *)
(***************************************************************************)
\* C4: a first-ever run (no baseline file, no events state, no last_check_ts)
\* that gets the results sends the one baseline message and no round or final
\* message, and every finished tournament of the results is stored as finished.
C4_BaselineSuppression ==
  (monLast.first /\ monLast.stage \in {"empty", "throttled", "processed"})
  => /\ monLast.sent = <<BaselineMsg(Len(monLast.items))>>
     /\ \A i \in DOMAIN monLast.items :
          item_finished(monLast.items[i])
          => /\ ev_key(monLast.items[i]) \in DOMAIN events
             /\ events[ev_key(monLast.items[i])].finished

\* C19: the record of a tournament that carries a provider id and the record
\* of the same tournament (same name, same end date) without the id fields get
\* the same key, from ev_key and from to_key.
C19_KeyStability ==
  (fnRes.done /\ (fnArg.cid # 0 \/ fnArg.eid # 0))
  => (fnRes.with = fnRes.without /\ fnRes.pwWith = fnRes.pwWithout)

\* events.json holds the value that the item carries for round rno
RoundStored(ev, rno) ==
  /\ ev_key(ev) \in DOMAIN events
  /\ str(rno) \in DOMAIN events[ev_key(ev)].rounds
  /\ events[ev_key(ev)].rounds[str(rno)] = round_val(round_fields(ev), rno)

\* C30: a throttled run (a last_check_ts exists, no live event, less than 2
\* hours since last_check_ts) sends no round or final message and leaves
\* events.json and last_check_ts as they were; a run is throttled only under
\* those conditions, so the gate opens 2 hours after last_check_ts.
C30_ThrottledPoll ==
  [][(monClock' = monClock /\ monLast'.stage = "throttled")
       => /\ lastSeen # None /\ ~monLast'.live
          /\ monClock - lastSeen < 2
          /\ \A i \in DOMAIN monLast'.sent : monLast'.sent[i].kind \notin {"round", "final"}
          /\ events' = events
          /\ lastSeen' = lastSeen]_vars

\* a throttled run an hour after the last check, with round values in the
\* results that events.json does not hold
C30_Witness ==
  /\ monLast.stage = "throttled" /\ monLast.since = 1
  /\ events # EmptyDict
  /\ \E i \in DOMAIN monLast.items : \E rno \in 1..4 :
       /\ round_val(round_fields(monLast.items[i]), rno) # ""
       /\ ~RoundStored(monLast.items[i], rno)

\* a field of the item holds a number where main expects a string
Malformed(ev) == \E f \in {"R1", "R2", "R3", "R4", "Total"} : ev[f] = NotStr

\* C22: in a poll that gets as far as the per-item loop, every record of the
\* results without a malformed field is processed and saved (its key is in
\* events.json with every round value the record carries), whatever another
\* record of the same poll raises.
C22_Isolation ==
  monLast.stage \in {"processed", "raised"}
  => \A i \in DOMAIN monLast.items :
       ~Malformed(monLast.items[i])
       => /\ ev_key(monLast.items[i]) \in DOMAIN events
          /\ \A rno \in 1..4 :
               round_val(round_fields(monLast.items[i]), rno) # ""
               => RoundStored(monLast.items[i], rno)

(***************************************************************************)
(* dpwt_monitor_discord_playwright.py : properties                         *)
(***************************************************************************)
\* the keys for which the run that ends the step posted a "new tournament"
NewPosted ==
  {pwLast'.sent[i].key : i \in {j \in DOMAIN pwLast'.sent : pwLast'.sent[j].kind = "new"}}

\* one "new tournament" post per such key
NewPostedOnce ==
  \A i, j \in DOMAIN pwLast'.sent :
    (pwLast'.sent[i].kind = "new" /\ pwLast'.sent[j] = pwLast'.sent[i]) => i = j

\* a poll with the same snapshot after that run posts nothing:
\* compare_baseline returns three empty lists
NothingLeft ==
  compare_baseline(pwBaseline'.tournaments, pwLast'.events)
    = [new_tournaments |-> <<>>, round_updates |-> <<>>, finished_now |-> <<>>]

\* C27 as stated: with a baseline and the gate open, a run that does not
\* raise posts "new tournament" for exactly the keys of the snapshot that the
\* baseline lacks, then stores the snapshot as the baseline, and a following
\* poll with the same snapshot posts nothing.
C27_NewTournamentStated ==
  [][pwLast'.stage \in {"nochange", "updated"}
       => /\ NewPosted = Range(key_order(pwLast'.events))
                           \ Range(key_order(pwBaseline.tournaments))
          /\ NewPostedOnce
          /\ pwBaseline'.tournaments = pwLast'.events
          /\ NothingLeft]_vars

\* C27 amended: the snapshot is stored as the baseline when the run found a
\* change (new tournament, changed field, newly finished); without a change
\* the baseline stays as it is.
C27_NewTournament ==
  [][pwLast'.stage \in {"nochange", "updated"}
       => /\ NewPosted = Range(key_order(pwLast'.events))
                           \ Range(key_order(pwBaseline.tournaments))
          /\ NewPostedOnce
          /\ pwLast'.stage = "updated" => pwBaseline'.tournaments = pwLast'.events
          /\ pwLast'.stage = "nochange" => pwBaseline' = pwBaseline
          /\ NothingLeft]_vars

\* a run that posted a new tournament next to one the baseline already held
C27_Witness ==
  /\ pwLast.stage = "updated"
  /\ \E i \in DOMAIN pwLast.sent : pwLast.sent[i].kind = "new"
  /\ \E k \in Range(key_order(pwLast.events)) : PwMsg("new", k) \notin Range(pwLast.sent)
  /\ pwBaseline.tournaments = pwLast.events

\* C28: write_json leaves at the path the complete previous content or the
\* complete new content, wherever it is cut short; only the .tmp file can be
\* partial.
C28_AtomicWrite ==
  [][/\ pwBaseline'.kind # "partial"
     /\ pwBaseline' = pwBaseline \/ pwBaseline' = Doc(pwLast'.events)]_vars

\* a write cut short while a baseline was in place
C28_Witness ==
  /\ pwLast.fail = "write_tmp" /\ pwLast.stage = "raised"
  /\ pwTmp = PartialFile
  /\ pwBaseline.kind = "json" /\ pwBaseline.tournaments # pwLast.events

\* the "baseline set" message of dpwt_monitor_discord.py goes out in this step
MonAnnounced == baselineSent' = baselineSent + 1

\* the "baseline set" message of the playwright monitor goes out in this step
PwAnnounced == pwBaselineSent' = pwBaselineSent + 1

\* C29: over any sequence of runs of dpwt_monitor_discord.main, and likewise
\* of dpwt_monitor_discord_playwright.main with the ticks the gate skips, the
\* "baseline set" message of the season is sent at most once, only in the run
\* that creates the baseline file; once the file exists ensure_baseline never
\* replaces it, and the playwright main replaces it only when it stores a
\* snapshot with changes, never by setting a baseline again.
C29_BaselineOnce ==
  [][ /\ baselineSent' <= 1
      /\ baselineSent' \in {baselineSent, baselineSent + 1}
      /\ (MonAnnounced => ~baseline.exists /\ baseline'.exists)
      /\ (baseline.exists => baseline' = baseline)
      /\ pwBaselineSent' <= 1
      /\ pwBaselineSent' \in {pwBaselineSent, pwBaselineSent + 1}
      /\ (PwAnnounced => pwBaseline.kind = "absent" /\ pwBaseline'.kind = "json")
      /\ (PwMsg("baseline", "") \in Range(pwLast'.sent) /\ pwLast' # pwLast => PwAnnounced)
      /\ (pwBaseline.kind # "absent" /\ pwBaseline' # pwBaseline
            => pwLast'.stage = "updated" /\ pwLast'.sent # <<>>) ]_vars

\* a later run of dpwt_monitor_discord.main processed a changed season next
\* to the baseline of the first run, the one announcement behind it
C29_Witness ==
  /\ baseline.exists /\ baselineSent = 1
  /\ monLast.stage = "processed" /\ ~monLast.first
  /\ Len(monLast.items) # baseline.count
  /\ monLast.sent # <<>>

\* a tick the gate skipped, after the playwright monitor announced its baseline
C29_SkippedTick ==
  /\ pwBaseline.kind = "json" /\ pwBaselineSent = 1
  /\ pwLast.stage = "skip" /\ ~pwLast.gate /\ pwLast.sent = <<>>

(***************************************************************************)
(* ms_leaderboard_bot.py : properties                                      *)
(***************************************************************************)
\* C10: over any sequence of runs the reminder of a tournament is delivered
\* at most once.
C10_ReminderAtMostOnce == \A u \in Urls : reminders[u] <= 1

\* the tournament a reminder marker stands for: the marker is the url of the
\* tournament or the str of its EventId
TournamentOf(key) ==
  IF key \in Urls THEN key
  ELSE Site \o (CHOOSE r \in {ResultA, ResultB, ResultC} : str(r.EventId) = key).EventUrl

\* the tournaments recorded as reminded in the persisted state
Reminded ==
  IF lbIssue.kind = "json" /\ lbIssue.data.pre_alert_event_id # ""
  THEN {TournamentOf(lbIssue.data.pre_alert_event_id)} ELSE {}

\* C11: a tournament recorded as reminded in the persisted state stays
\* recorded after every later run, runs that remind of another tournament
\* included.
C11_ReminderMarkersGrow == [][Reminded \subseteq Reminded']_vars

\* the rounds marked in d[E], d being round_done or round_final
MarkedRounds(d, E) == IF E \in DOMAIN d THEN {r \in 1..4 : Marked(d[E], str(r))} ELSE {}

\* C33: in every persisted state reachable through main, round_final[event_id][r]
\* is set only if round_done[event_id][r] is set, and a "round complete (all
\* players)" message for round r is never sent in or before a poll in which the
\* tracked player's own round-r message has not been sent.
C33_FinalImpliesDone ==
  /\ lbIssue.kind = "json" =>
       \A E \in DOMAIN lbIssue.data.round_final :
         MarkedRounds(lbIssue.data.round_final, E) \subseteq MarkedRounds(lbIssue.data.round_done, E)
  /\ \A E \in EventKeys, r \in 1..4 :
       roundSent[<<"round_final", E, r>>] >= 1 => roundSent[<<"round_done", E, r>>] >= 1

\* round 1 of event 300 is recorded as complete for all players, in a run
\* that sent the round-final message
C33_Witness ==
  /\ lbIssue.kind = "json"
  /\ 1 \in MarkedRounds(lbIssue.data.round_final, "300")
  /\ roundSent[<<"round_final", "300", 1>>] >= 1
  /\ lbLast.stage = "done" /\ lbLast.saved
  /\ \E i \in DOMAIN lbLast.sent : lbLast.sent[i].kind = "round_final"

\* a step of a run of main (the clock stands still)
LbRan == lbClock' = lbClock /\ lbLast' # NoLbRun

\* the run of this step delivered the message of that kind for round r
SentNow(kind, r) ==
  \E i \in DOMAIN lbLast'.sent : lbLast'.sent[i].kind = kind /\ lbLast'.sent[i].round = r

\* C34: for each round r in 1..4 of the active event, in the first processed
\* poll (inside the activity window, tracked player present) in which every
\* player on the leaderboard has non-null strokes for round r a round-final
\* message for r is sent, and it is sent at most once per (event_id, r)
\* across polls whose state save completes.
C34_RoundFinal ==
  [][ LbRan =>
        /\ \A r \in 1..4 :
             (lbLast'.stage = "done" /\ r \in lbLast'.complete
                /\ <<lbLast'.event, r>> \notin lbComplete)
               => SentNow("round_final", r)
        /\ ~lbUnsaved' =>
             \A E \in EventKeys, r \in 1..4 : roundSent'[<<"round_final", E, r>>] <= 1 ]_vars

\* a second saved run saw round 1 complete again and left the one round-final
\* message of the first as it was
C34_Witness ==
  /\ ~lbUnsaved
  /\ roundSent[<<"round_final", "300", 1>>] = 1
  /\ lbLast.stage = "done" /\ 1 \in lbLast.complete
  /\ \A i \in DOMAIN lbLast.sent : lbLast.sent[i].kind # "round_final"

\* C35: across any sequence of polls whose state save completes, the tracked
\* player's round-done message for a given (event_id, round) is sent at most
\* once, even if the strokes value reported for that round changes in a later
\* snapshot.
C35_RoundDoneOnce ==
  [][ LbRan /\ ~lbUnsaved' =>
        \A E \in EventKeys, r \in 1..4 : roundSent'[<<"round_done", E, r>>] <= 1 ]_vars

\* round 1 was reported with 70 strokes and recorded; this run saw it with 69
\* strokes (cumulated -3) and sent no round-done message
C35_Witness ==
  /\ ~lbUnsaved
  /\ roundSent[<<"round_done", "300", 1>>] = 1
  /\ lbLast.stage = "done" /\ lbLast.cum = -3
  /\ lbIssue.kind = "json" /\ lbIssue.data.round_cum_to_par["300"]["1"] = -2
  /\ \A i \in DOMAIN lbLast.sent : lbLast.sent[i].kind # "round_done"

(***************************************************************************)
(* dpwt_marcel_bot.py: properties                                          *)
(***************************************************************************)
NoDuplicate(seq) == \A i, j \in DOMAIN seq : seq[i] = seq[j] => i = j

DriverStep ==
  /\ driver'.tries <= MaxTries
  /\ (driver.pc = "first" /\ driver'.pc = "first" /\ driver' # driver) => last'.raised
  /\ (driver.pc = "first" /\ driver'.pc = "watch") => ~last'.raised /\ returned(last')
  /\ (driver.pc = "poll" /\ driver' # driver) =>
       (driver'.pc = "exit" <=> ~last'.raised /\ ~returned(last'))
  /\ (driver.pc = "poll" /\ driver'.pc # "exit" /\ driver' # driver) => driver'.pc = "watch"
  /\ (driver.pc = "watch" /\ driver'.pc = "exit") => driver.left <= 0
  /\ (driver.pc = "watch" /\ driver'.pc = "poll") => driver.left > 0 /\ driver'.left < driver.left
  /\ driver.pc = "exit" => driver' = driver

\* C37: the first poll is attempted at most three times and again only
\* after it raised; the watch is entered only after a first poll that
\* returned active; a poll of the watch ends the watch iff it returns
\* not-active, one that raises does not; otherwise the watch ends when its
\* 72 hours are spent; and the driver reaches its end.
C37_DriverTerminates == [][DriverStep]_vars /\ <>(driver.pc = "exit")

\* the driver at its end after a first poll that raised once, and a watch
\* in which a poll raised and a later throttled poll returned not-active
C37_Witness ==
  /\ driver.pc = "exit"
  /\ driver.tries = 2
  /\ driver.raised >= 1
  /\ driver.polls >= 2
  /\ last.stage = "throttled"
  /\ ~last.raised

(***************************************************************************)
(* bot.py, the state block in the issue body: properties                   *)
(***************************************************************************)
\* the text before the first start marker
BeforeStart(body) == split(body, STATE_JSON_START)[1]

\* the text after the last end marker
AfterEnd(body) == split(body, STATE_JSON_END)[Len(split(body, STATE_JSON_END))]

HasBlock(body) == contains(body, STATE_JSON_START) /\ contains(body, STATE_JSON_END)

\* C38: for every state and every body of an existing issue,
\* gh_issue_get_state after gh_issue_set_state(state) returns state, and
\* gh_issue_set_state keeps the text before the start marker and the text
\* after the end marker, or appends the block to a body that has none.
C38_BodyRoundTrip ==
  fnRes.done =>
    /\ fnRes.got = fnArg.state
    /\ IF HasBlock(fnArg.body)
       THEN /\ BeforeStart(fnRes.body) = BeforeStart(fnArg.body)
            /\ AfterEnd(fnRes.body) = AfterEnd(fnArg.body)
       ELSE SubSeq(fnRes.body, 1, Len(fnArg.body)) = fnArg.body

====
